---- MODULE Spec2Model ----
(***************************************************************************)
(* e3-ecat2 live viewer: bring-up of the master, discovery of a slave's    *)
(* PDO assignment and mapping over the CoE mailbox, configuration and      *)
(* registration of the discovered layout, and the cyclic read of named     *)
(* fields.  The viewer exists in several versions, modelled side by side:  *)
(*   variant "req":  src/tools/ecat_liveviewer_v6.0.c, which reads the     *)
(*                   dictionary through SDO request objects that it polls; *)
(*   variant "req1": src/unnamed/part_001, the same reads, with the master *)
(*                   activated only after the registration;                *)
(*   variant "upl":  src/unnamed/part_000 (second program), which reads it *)
(*                   through synchronous master SDO uploads and decodes    *)
(*                   the raw answer with sdo_u8_any / sdo_u16_any /        *)
(*                   sdo_u32_exact;                                        *)
(*   variant "v3":   src/tools/ecat_liveviewer_v3.0.c, with a static PDO   *)
(*                   table, a bounded wait for OP and a per-byte resolver. *)
(* Two parts are also exercised on their own: the field resolvers and      *)
(* readers of v1.0, v2.0 and v6.0 (variant "fields"), and the layout       *)
(* validations of src/tools/ecat_cfgdiag.c (variant "diag"); wait_for_op   *)
(* of v3.0 from any iteration of its loop; and the per-byte entry tables   *)
(* of ecat_cfgdiag.c and src/tools/ecat_dump_raw.c (variant "entries").    *)
(***************************************************************************)
EXTENDS Integers, Sequences, FiniteSets, TLC

VARIABLES
    variant,      \* "req" | "req1" | "upl" | "v3" | "codec" | "fields" | "diag" |
                  \* "entries": which program runs
    dev,          \* the slave's object dictionary (fixed during a run)
    pc,           \* position of the single thread
    err,          \* why the pipeline failed ("none" while it has not)
    loop_i,       \* loop counter of the PREOP wait / warm-up loops of main
    sawPreop,     \* the slave was observed in PREOP
    rd,           \* the mailbox read in progress, or the last one made
    reqState,     \* runtime-side status of the SDO request of rd
    pending,      \* SDO requests started and not yet completed
    sinceIssue,   \* exchange cycles performed since the last request was started
                  \* (since the program started, before the first request)
    dir,          \* "rx" | "tx": the direction build_pdo_lists is working on
    caller,       \* which statement of the discovery issued rd
    cnt,          \* local uint8_t count / n of read_assign_list / read_pdo_map
    ai,           \* loop index i of read_assign_list / read_pdo_map
    k,            \* loop index i of build_pdo_lists
    rx_i, tx_i,   \* uint16_t rx_i[16], tx_i[16] of build_pdo_lists
    rx_n, tx_n,   \* int rx_n, tx_n of build_pdo_lists
    rx, tx,       \* pdo_list_t rx, tx: sequences of pdo_t
    log,          \* every dictionary read issued so far: <<index, subindex, value>>
    lastDec,      \* the last raw answer decoded by the "upl" decoders and its outcome
    triple, raw, decoded,  \* the mapping-word codec check
    al_state,     \* the slave's application-layer state, as the runtime reports it
    calls,        \* the checked runtime calls made so far: <<call, accepted>>
    infos,        \* ec_pdo_info_t *infos of build_info / make_infos
    syncs,        \* ec_sync_info_t *syncs of build_syncs / make_syncs
    regs,         \* ec_pdo_entry_reg_t *regs of build_entry_regs / make_regs
    offs,         \* unsigned *offs: the offsets the registration writes
    nentries,     \* int nentries (*total_out)
    pd,           \* ecrt_domain_data returned the process image
    sm3_base,     \* int sm3_base of main
    cycles,       \* passes of the cyclic loop made so far
    lastField,    \* the field read last by the cyclic loop and the image bytes used
    wait_op_ms,   \* v3.0: int wait_op_ms of main
    elapsed,      \* v3.0: int elapsed of wait_for_op
    opRc,         \* v3.0: what wait_for_op returned (1 before it did)
    fl,           \* the field list, once the fields have been resolved
    tool,         \* the viewer whose resolver and reader are exercised on their own
    dom,          \* uint8_t *dom: the bytes of the process image
    vals,         \* what one pass of the viewer loop shows for each field
    diag,         \* ecat_cfgdiag: the registered layout and the validator's verdict
    xchg,         \* the runtime calls of the last exchange cycle made, in order,
                  \* with "read" where the fields are read from the image
    op_iters      \* v3.0: iterations of the loop of wait_for_op made so far

vars == <<variant, dev, pc, err, loop_i, sawPreop, rd, reqState, pending,
          sinceIssue, dir, caller, cnt, ai, k, rx_i, tx_i, rx_n, tx_n, rx, tx,
          log, lastDec, triple, raw, decoded, al_state, calls, infos, syncs,
          regs, offs, nentries, pd, sm3_base, cycles, lastField, wait_op_ms,
          elapsed, opRc, fl, tool, dom, vals, diag, xchg, op_iters>>

codecVars == <<triple, raw, decoded>>
mainVars  == <<loop_i, sawPreop>>
discVars  == <<dir, cnt, ai, k, rx_i, tx_i, rx_n, tx_n, rx, tx>>
layoutVars == <<infos, syncs, regs, offs, nentries>>
viewVars  == <<pd, sm3_base, cycles, lastField>>
v3Vars    == <<wait_op_ms, elapsed, opRc, fl>>
tailVars  == <<al_state, calls, layoutVars, viewVars, v3Vars>>
toolVars  == <<tool, dom, vals, diag>>
xchgVars  == <<xchg, op_iters>>

----------------------------------------------------------------------------
(* Program constants                                                       *)

\* for (int i=0;i<200;i++) of read_sdo_u8 / read_sdo_u16 / read_sdo_u32
PollBudget == 200
\* if (count > 16) count = 16;  and  uint16_t rx_i[16], tx_i[16]
MaxAssign == 16
\* 0x1C12: RxPDO assign, 0x1C13: TxPDO assign
RxAssignIdx == 7186
TxAssignIdx == 7187
\* for (int i=0;i<200;i++) warm-up of v6.0's main; i<100 in part_000's main
WarmupReq == 200
WarmupUpl == 100

(* Bounds of the model                                                     *)

\* distinct PDO objects the device offers per direction
NumPdoObjects == 2
\* largest number of entries of a mapping object
MaxMapEntries == 3
\* the count a malformed device reports in subindex 0 of an assignment
BigCount == 40
\* iterations of the (unbounded) PREOP wait loop that are explored
MaxPreopCycles == 3

----------------------------------------------------------------------------
(* Bytes and words                                                         *)

\* A 32-bit value is kept as its two 16-bit halves (TLC's integers are
\* 32-bit signed): b0 | b1<<8 | b2<<16 | b3<<24
U32(b0, b1, b2, b3) == [lo |-> b0 + b1 * 256, hi |-> b2 + b3 * 256]

\* the little-endian bytes of an 8-bit and of a 16-bit value
Bytes8(v) == <<v % 256>>
Bytes16(v) == <<v % 256, (v \div 256) % 256>>

\* The 32-bit mapping word a device stores for a mapped entry, as its four
\* little-endian bytes: index | subindex << 16 | bits << 24.
PackWord(t) == <<t.index % 256, (t.index \div 256) % 256, t.subindex, t.bits>>

\* The answer a device gives for a value whose own little-endian bytes are
\* vb: len bytes, the bytes above the value's width carrying the filler.
AnswerBytes(vb, len, filler) ==
    [n \in 1..len |-> IF n <= Len(vb) THEN vb[n] ELSE filler]

\* uint8_t tmp[size] = {0} after the upload copied the answer into it
TmpBuf(size, bytes) ==
    [n \in 0..(size - 1) |-> IF n < Len(bytes) THEN bytes[n + 1] ELSE 0]

----------------------------------------------------------------------------
(* Synchronous master SDO upload and the decoders of part_000               *)

\* master_sdo_read: ecrt_master_sdo_upload into a buffer of `size` bytes.
\* env.fail: the upload failed (abort, timeout); an answer longer than the
\* buffer is refused by the runtime. Otherwise rc = 0 and sz is the
\* answer's length.
master_sdo_read(size, env) ==
    IF env.fail THEN [rc |-> -5, sz |-> size, tmp |-> TmpBuf(size, <<>>)]
    ELSE IF Len(env.bytes) > size
         THEN [rc |-> -75, sz |-> size, tmp |-> TmpBuf(size, <<>>)]
         ELSE [rc |-> 0, sz |-> Len(env.bytes), tmp |-> TmpBuf(size, env.bytes)]

\* a lenient count decode that takes every answer fitting its buffer
U8AnySizes_UpTo4 == 1..4

\* sizes sdo_u8_any accepts
U8AnySizes == {1, 2, 4}

\* an index decode that also takes a one-byte answer
U16AnySizes_FromOne == {1, 2, 4, 8}

\* sizes sdo_u16_any accepts
U16AnySizes == {2, 4, 8}

sdo_u8_any(env) ==
    LET r == master_sdo_read(4, env) IN
    IF r.rc # 0 THEN [rc |-> r.rc, v |-> 0]
    ELSE IF r.sz \in U8AnySizes THEN [rc |-> 0, v |-> r.tmp[0]]
    ELSE [rc |-> -1, v |-> 0]

sdo_u16_any(env) ==
    LET r == master_sdo_read(8, env) IN
    IF r.rc # 0 THEN [rc |-> r.rc, v |-> 0]
    ELSE IF r.sz \in U16AnySizes
         THEN [rc |-> 0, v |-> (r.tmp[0] + r.tmp[1] * 256) % 65536]
    ELSE [rc |-> -1, v |-> 0]

\* a strict decode that only refuses answers longer than the word
ExactSize_AtMost4(sz) == sz <= 4

\* the length sdo_u32_exact insists on:  if (sz != 4) return -1;
ExactSize(sz) == sz = 4

sdo_u32_exact(env) ==
    LET r == master_sdo_read(4, env) IN
    IF r.rc # 0 THEN [rc |-> r.rc, v |-> 0]
    ELSE IF ~ExactSize(r.sz) THEN [rc |-> -1, v |-> 0]
    ELSE [rc |-> 0, v |-> U32(r.tmp[0], r.tmp[1], r.tmp[2], r.tmp[3])]

\* a split that takes the subindex and the bit length from each other's byte
SplitWord_Swapped(map) ==
    [index    |-> map.lo % 65536,
     subindex |-> (map.hi \div 256) % 256,
     bits     |-> map.hi % 256]

\* out->entries[i].idx / .sub / .bits of read_pdo_map
SplitWord(map) ==
    [index    |-> map.lo % 65536,
     subindex |-> map.hi % 256,
     bits     |-> (map.hi \div 256) % 256]

----------------------------------------------------------------------------
(* The slave's object dictionary                                           *)

\* 0x1600 / 0x1A00: the first RxPDO / TxPDO mapping object
RxPdoBase == 5632
TxPdoBase == 6656

IsAssign(idx) == idx \in {RxAssignIdx, TxAssignIdx}
IsTxPdo(idx) == idx >= TxPdoBase

\* A device: the counts it reports in 0x1C12:00 and 0x1C13:00 and the number
\* of entries m of its first RxPDO mapping object. The malformed count is
\* explored with a single well-formed neighbour.
AssignCounts == {0, 1, NumPdoObjects, BigCount}

Devices ==
    {d \in [rxc : AssignCounts, txc : AssignCounts, m : 0..MaxMapEntries] :
        (d.rxc >= BigCount \/ d.txc >= BigCount)
            => (d.m = 1 /\ d.rxc + d.txc = BigCount + 1)}

DevPdoAt(idx, sub) ==
    (IF idx = RxAssignIdx THEN RxPdoBase ELSE TxPdoBase)
        + ((sub - 1) % NumPdoObjects)

DevMapCount(d, idx) ==
    IF IsTxPdo(idx) THEN (d.m + (idx - TxPdoBase) + 1) % (MaxMapEntries + 1)
    ELSE (d.m + (idx - RxPdoBase)) % (MaxMapEntries + 1)

\* entries of 8 bits, except one 16-bit entry in the second object
DevMapEntry(idx, sub) ==
    LET o == IF IsTxPdo(idx) THEN idx - TxPdoBase ELSE idx - RxPdoBase IN
    [index    |-> (IF IsTxPdo(idx) THEN 24576 ELSE 28672) + 16 * o,
     subindex |-> sub,
     bits     |-> IF o = 1 /\ sub = 2 THEN 16 ELSE 8]

DevCount(d, idx) ==
    IF idx = RxAssignIdx THEN d.rxc
    ELSE IF idx = TxAssignIdx THEN d.txc
    ELSE DevMapCount(d, idx)

\* the object (idx, sub) exists in the dictionary
DevHas(d, idx, sub) == sub <= DevCount(d, idx)

\* the little-endian bytes of the object (idx, sub), in its own width
DevBytes(d, idx, sub) ==
    IF sub = 0 THEN Bytes8(DevCount(d, idx))
    ELSE IF IsAssign(idx) THEN Bytes16(DevPdoAt(idx, sub))
    ELSE PackWord(DevMapEntry(idx, sub))

----------------------------------------------------------------------------
(* Mailbox reads                                                           *)

\* the programs that read the dictionary through polled SDO requests
UsesRequests(v) == v \in {"req", "req1"}

\* A fresh read of (idx, sub) expecting `size` bytes, issued by statement `who`
StartRead(idx, sub, size, who) ==
    /\ rd' = [idx |-> idx, sub |-> sub, size |-> size, i |-> 0, polls |-> 0,
              sleeps |-> 0, saw |-> FALSE, created |-> FALSE, res |-> "none",
              val |-> 0]
    /\ caller' = who
    /\ pc' = "rd_issue"

\* a poll that takes every finished request, failed ones too, for a success
PollSucceeds_AnyEnd(s) == s # "busy"

\* if (ecrt_sdo_request_state(req) == EC_REQUEST_SUCCESS)
PollSucceeds(s) == s = "success"

\* the statuses the runtime may report for a request at the next poll
NextStatus(st, has) ==
    IF st = "busy" THEN {"busy", "error"} \cup (IF has THEN {"success"} ELSE {})
    ELSE {st}

\* the value read_sdo_u8 / u16 / u32 assemble from the request's data
ReqDecode(size, d) ==
    IF size = 1 THEN d[0]
    ELSE IF size = 2 THEN d[0] + d[1] * 256
    ELSE U32(d[0], d[1], d[2], d[3])

\* read_sdo_*: ecrt_slave_config_create_sdo_request; if (!req) return -1;
\* ecrt_sdo_request_read(req);
ReadIssue ==
    /\ UsesRequests(variant) /\ pc = "rd_issue"
    /\ \E created \in BOOLEAN :
        IF created
        THEN /\ rd' = [rd EXCEPT !.created = TRUE]
             /\ reqState' = "busy"
             /\ pending' = pending + 1
             /\ sinceIssue' = 0
             /\ log' = Append(log, <<rd.idx, rd.sub, -1>>)
             /\ pc' = "rd_poll"
        ELSE /\ rd' = [rd EXCEPT !.res = "rejected"]
             /\ pc' = "rd_ret"
             /\ UNCHANGED <<reqState, pending, sinceIssue, log>>
    /\ UNCHANGED <<variant, dev, err, mainVars, caller, discVars, lastDec, codecVars, xchgVars, toolVars, tailVars>>

\* a loop that is also left when the request reports that it failed
LoopEnds_AtFailure(s, i) == s = "error" \/ i >= PollBudget

\* for (int i=0;i<200;i++): the loop is left with i = 200, whatever status
\* the polls have returned
LoopEnds(s, i) == i >= PollBudget

\* one iteration of  for (i=0;i<200;i++) { if (state == SUCCESS) {...return 0;}
\* usleep(1000); }  and, after the last one,  return -1;
ReadPoll ==
    /\ UsesRequests(variant) /\ pc = "rd_poll" /\ rd.i < PollBudget
    /\ \E s \in NextStatus(reqState, DevHas(dev, rd.idx, rd.sub)) :
        /\ reqState' = s
        /\ pending' = IF reqState = "busy" /\ s # "busy" THEN pending - 1 ELSE pending
        /\ IF PollSucceeds(s)
           THEN LET d == TmpBuf(rd.size,
                           AnswerBytes(DevBytes(dev, rd.idx, rd.sub), rd.size, 0))
                    v == ReqDecode(rd.size, d) IN
                /\ rd' = [rd EXCEPT !.polls = @ + 1, !.saw = (@ \/ s = "success"),
                                    !.res = "ok", !.val = v]
                /\ log' = [log EXCEPT ![Len(log)] = <<rd.idx, rd.sub, v>>]
                /\ pc' = "rd_ret"
           ELSE /\ rd' = [rd EXCEPT !.polls = @ + 1, !.sleeps = @ + 1, !.i = @ + 1,
                                    !.saw = (@ \/ s = "success"),
                                    !.res = IF LoopEnds(s, rd.i + 1) THEN "timeout"
                                            ELSE "none"]
                /\ pc' = IF LoopEnds(s, rd.i + 1) THEN "rd_ret" ELSE "rd_poll"
                /\ log' = log
    /\ UNCHANGED <<variant, dev, err, mainVars, sinceIssue, caller, discVars,
                   lastDec, codecVars, xchgVars, toolVars, tailVars>>

\* lengths and filler bytes of the raw answers a device gives
AnswerLens == {1, 2, 3, 4, 8}
Fillers == {0, 165}

\* which decoder of part_000 serves a read of `size` bytes
Decode(size, env) ==
    IF size = 1 THEN sdo_u8_any(env)
    ELSE IF size = 2 THEN sdo_u16_any(env)
    ELSE sdo_u32_exact(env)

\* sdo_u8_any / sdo_u16_any / sdo_u32_exact called from read_assign_list and
\* read_pdo_map: one synchronous upload, then the decode of its answer
ReadUpload ==
    /\ variant = "upl" /\ pc = "rd_issue"
    /\ \E fail \in BOOLEAN, len \in AnswerLens, filler \in Fillers :
        LET bytes == AnswerBytes(DevBytes(dev, rd.idx, rd.sub), len, filler)
            env == [fail |-> fail \/ ~DevHas(dev, rd.idx, rd.sub), bytes |-> bytes]
            r == Decode(rd.size, env) IN
        /\ rd' = [rd EXCEPT !.created = TRUE,
                            !.res = IF r.rc = 0 THEN "ok" ELSE "fail",
                            !.val = r.v]
        /\ lastDec' = [size |-> rd.size, fail |-> env.fail, bytes |-> bytes,
                       rc |-> r.rc, v |-> r.v]
        /\ log' = Append(log, <<rd.idx, rd.sub, IF r.rc = 0 THEN r.v ELSE -1>>)
    /\ sinceIssue' = 0
    /\ pc' = "rd_ret"
    /\ UNCHANGED <<variant, dev, err, mainVars, reqState, pending, caller, discVars,
                   codecVars, xchgVars, toolVars, tailVars>>

----------------------------------------------------------------------------
(* main, up to the discovery                                               *)

\* a failure that is noted while main stays where it is
Fail_Resume(e) == pc' = pc /\ err' = e

\* return 1; out of main (return -1; out of the function and return 1; out
\* of main after it): no statement of the program follows
Fail(e) == pc' = "failed" /\ err' = e

\* for (int i=0; i<300; i++) warm-up of part_001's main
WarmupReq1 == 300

\* a main that takes the pointer to the process image before it activates
MainSteps_PointerFirst(v) ==
    <<"request_master", "create_domain", "slave_config", "domain_data",
      "activate", "sm3_base", "cyclic">>

\* The statements of main in program order. v6.0 and part_000 activate the
\* master before the PREOP wait; part_001 has no PREOP wait and activates
\* after the registration; v3.0 is setup_and_register followed by main.
MainSteps(v) ==
    IF v = "req1"
    THEN <<"request_master", "slave_config", "warmup", "build", "built",
           "config_pdos", "create_domain", "build_regs", "reg_list",
           "activate", "domain_data", "sm3_base", "cyclic">>
    ELSE IF v = "v3"
    THEN <<"request_master", "slave_config", "static_table", "config_pdos",
           "create_domain", "static_regs", "reg_list", "activate",
           "domain_data", "wait_op", "op_result", "map_fields", "cyclic">>
    ELSE <<"request_master", "create_domain", "slave_config", "activate",
           "wait_preop", "warmup", "build", "built", "config_pdos",
           "build_regs", "reg_list", "domain_data", "sm3_base", "cyclic">>

\* the statement that follows step p
After(v, p) ==
    LET s == MainSteps(v)
        i == CHOOSE n \in 1..Len(s) : s[n] = p IN
    s[i + 1]

\* a checked call that goes on although the runtime refused
CallFailed_Never(rc) == FALSE

\* if (!master) return 1;   if (ecrt_slave_config_pdos(...)) { ...; return 1; }
\* rc stands for the returned status, or for a NULL handle when it is not 0
CallFailed(rc) == rc # 0

\* a call into the runtime that main checks: on failure main returns 1
RuntimeCall(step) ==
    /\ pc = step
    /\ \E rc \in {0, -1} :
        /\ calls' = Append(calls, <<step, rc = 0>>)
        /\ IF CallFailed(rc) THEN Fail(step)
           ELSE pc' = After(variant, step) /\ err' = err
    /\ UNCHANGED <<variant, dev, mainVars, rd, reqState, pending, sinceIssue,
                   caller, discVars, log, lastDec, codecVars, xchgVars, toolVars, al_state,
                   layoutVars, viewVars, v3Vars>>

RequestMaster == RuntimeCall("request_master")
CreateDomain  == RuntimeCall("create_domain")
SlaveConfig   == RuntimeCall("slave_config")
Activate      == RuntimeCall("activate")

\* The slave advances through INIT, PREOP, SAFEOP, OP on its own schedule,
\* or not at all; the program only observes it while it waits.
AlNext(st) ==
    IF st = "init" THEN "preop"
    ELSE IF st = "preop" THEN "safeop"
    ELSE "op"

SlaveAdvance ==
    /\ \/ pc = "wait_preop" /\ al_state = "init"
       \/ pc = "wait_op" /\ al_state # "op"
    /\ al_state' = AlNext(al_state)
    /\ UNCHANGED <<variant, dev, pc, err, mainVars, rd, reqState, pending,
                   sinceIssue, caller, discVars, log, lastDec, codecVars, xchgVars, toolVars, calls,
                   layoutVars, viewVars, v3Vars>>

\* a counter that the model follows up to the bound `cap`
UpTo(n, cap) == IF n < cap THEN n + 1 ELSE n

\* The runtime calls of one iteration of the PREOP wait and of the warm-up
\* loop: ecrt_master_receive, ecrt_domain_process, ecrt_domain_queue,
\* ecrt_master_send in v6.0 and part_000; part_001, which has no domain yet,
\* calls ecrt_master_receive and ecrt_master_send only.
BringupCycle(v) ==
    IF v = "req1" THEN <<"receive", "send">>
    ELSE <<"receive", "process", "queue", "send">>

\* for (;;) { receive; process; queue; send; state; if (PREOP) break; usleep }
\* The loop has no counter of its own: loop_i follows its iterations up to
\* MaxPreopCycles, after which a further iteration changes nothing.
WaitPreop ==
    /\ pc = "wait_preop"
    /\ sinceIssue' = UpTo(sinceIssue, MaxPreopCycles)
    /\ IF al_state = "preop"
       THEN sawPreop' = TRUE /\ loop_i' = 0 /\ pc' = After(variant, "wait_preop")
       ELSE sawPreop' = sawPreop /\ loop_i' = UpTo(loop_i, MaxPreopCycles) /\ pc' = pc
    /\ xchg' = BringupCycle(variant)
    /\ UNCHANGED <<variant, dev, err, rd, reqState, pending, caller, discVars,
                   log, lastDec, codecVars, op_iters, toolVars, tailVars>>

\* a warm-up that is one cycle short of the shortest one
WarmupCycles_Short == IF variant = "req" THEN WarmupReq ELSE WarmupUpl - 1

WarmupCycles ==
    IF variant = "req" THEN WarmupReq
    ELSE IF variant = "req1" THEN WarmupReq1
    ELSE WarmupUpl

\* for (i=0;i<200;i++) { receive; process; queue; send; usleep(1000); }
Warmup ==
    /\ pc = "warmup" /\ loop_i < WarmupCycles
    /\ sinceIssue' = sinceIssue + 1
    /\ loop_i' = loop_i + 1
    /\ pc' = IF loop_i + 1 < WarmupCycles THEN "warmup" ELSE After(variant, "warmup")
    /\ xchg' = BringupCycle(variant)
    /\ UNCHANGED <<variant, dev, err, sawPreop, rd, reqState, pending, caller,
                   discVars, log, lastDec, codecVars, op_iters, toolVars, tailVars>>

----------------------------------------------------------------------------
(* Discovery: read_assign_list, read_pdo_map, build_pdo_lists              *)

\* a caller that goes on after a timed-out read
ReadFailed_NotTimeout(res) == res \notin {"ok", "timeout"}

\* a caller that does not look at the result of the read
ReadFailed_Never(res) == FALSE

\* if (read_sdo_u8(...)) return -1;   if (sdo_u8_any(...)) { ...; return -1; }
ReadFailed(res) == res # "ok"

\* no clamp at all
ClampCount_None(c) == c

\* a clamp that lets one index more through than the buffer holds
ClampCount_OneMore(c) == IF c > MaxAssign THEN MaxAssign + 1 ELSE c

\* if (cnt > 16) cnt = 16;
ClampCount(c) == IF c > MaxAssign THEN MaxAssign ELSE c

\* a loop that reads the first two subindices in the wrong order
NextSub_Swapped(i) == IF i = 0 THEN 2 ELSE IF i = 1 THEN 1 ELSE (i + 1) % 256

\* (uint8_t)(i+1): the subindex read in iteration i
NextSub(i) == (i + 1) % 256

AssignIdx(d) == IF d = "rx" THEN RxAssignIdx ELSE TxAssignIdx

\* a zeroed pdo_t / pdo_entry_t, as calloc returns them
ZeroEntry == [index |-> 0, subindex |-> 0, bits |-> 0]
ZeroPdo == [pdo_index |-> 0, entry_count |-> 0, entries |-> <<>>]

\* build_pdo_lists: read_assign_list(master, pos, 0x1C12, rx_i, &rx_n)
Build ==
    /\ pc = "build"
    /\ dir' = "rx" /\ cnt' = 0 /\ rx_n' = 0 /\ tx_n' = 0
    /\ StartRead(RxAssignIdx, 0, 1, "assign_cnt")
    /\ UNCHANGED <<variant, dev, err, mainVars, reqState, pending, sinceIssue,
                   ai, k, rx_i, tx_i, rx, tx, log, lastDec, codecVars, xchgVars, toolVars, tailVars>>

\* read_assign_list after the read of subindex 0: the error return, the
\* (part_000 only) check for a zero count, the clamp
AssignCount ==
    /\ pc = "rd_ret" /\ caller = "assign_cnt"
    /\ IF ReadFailed(rd.res) THEN Fail("assign_count") /\ UNCHANGED <<cnt, ai>>
       ELSE IF variant = "upl" /\ rd.val = 0
            THEN Fail("empty_assign") /\ UNCHANGED <<cnt, ai>>
       ELSE cnt' = ClampCount(rd.val) /\ ai' = 0 /\ pc' = "assign_loop" /\ err' = err
    /\ UNCHANGED <<variant, dev, mainVars, rd, reqState, pending, sinceIssue,
                   caller, dir, k, rx_i, tx_i, rx_n, tx_n, rx, tx, log, lastDec,
                   codecVars, xchgVars, toolVars, tailVars>>

\* for (i=0; i<cnt; i++) read subindex i+1;  then *n_out = cnt; return 0; and
\* build_pdo_lists goes on with 0x1C13 or with the allocation of the lists
AssignLoop ==
    /\ pc = "assign_loop"
    /\ IF ai < cnt
       THEN /\ StartRead(AssignIdx(dir), NextSub(ai), 2, "assign_item")
            /\ UNCHANGED <<dir, cnt, rx_n, tx_n>>
       ELSE IF dir = "rx"
       THEN /\ rx_n' = cnt /\ dir' = "tx" /\ cnt' = 0 /\ tx_n' = tx_n
            /\ StartRead(TxAssignIdx, 0, 1, "assign_cnt")
       ELSE /\ tx_n' = cnt /\ pc' = "alloc_lists"
            /\ UNCHANGED <<rd, caller, dir, cnt, rx_n>>
    /\ UNCHANGED <<variant, dev, err, mainVars, reqState, pending, sinceIssue,
                   ai, k, rx_i, tx_i, rx, tx, log, lastDec, codecVars, xchgVars, toolVars, tailVars>>

\* pdo_idxs[i] = pdoi;
AssignItem ==
    /\ pc = "rd_ret" /\ caller = "assign_item"
    /\ IF ReadFailed(rd.res) THEN Fail("assign_item") /\ UNCHANGED <<ai, rx_i, tx_i>>
       ELSE /\ IF dir = "rx"
               THEN rx_i' = [rx_i EXCEPT ![ai] = rd.val] /\ tx_i' = tx_i
               ELSE tx_i' = [tx_i EXCEPT ![ai] = rd.val] /\ rx_i' = rx_i
            /\ ai' = ai + 1 /\ pc' = "assign_loop" /\ err' = err
    /\ UNCHANGED <<variant, dev, mainVars, rd, reqState, pending, sinceIssue,
                   caller, dir, cnt, k, rx_n, tx_n, rx, tx, log, lastDec, codecVars, xchgVars, toolVars, tailVars>>

\* rx->list = calloc(rx_n, ...); tx->list = calloc(tx_n, ...);
\* if (!rx->list || !tx->list) return -1;   calloc may return NULL: always
\* for lack of memory, and for a size of 0 by the implementation's choice
AllocLists ==
    /\ pc = "alloc_lists"
    /\ \E rxNull \in BOOLEAN, txNull \in BOOLEAN :
        IF rxNull \/ txNull THEN Fail("calloc") /\ UNCHANGED <<rx, tx, dir, k>>
        ELSE /\ rx' = [n \in 1..rx_n |-> ZeroPdo]
             /\ tx' = [n \in 1..tx_n |-> ZeroPdo]
             /\ dir' = "rx" /\ k' = 0 /\ pc' = "map_loop" /\ err' = err
    /\ UNCHANGED <<variant, dev, mainVars, rd, reqState, pending, sinceIssue,
                   caller, cnt, ai, rx_i, tx_i, rx_n, tx_n, log, lastDec, codecVars, xchgVars, toolVars, tailVars>>

\* for (i=0;i<rx_n;i++) read_pdo_map(rx_i[i], &rx->list[i]);  then the same
\* for tx;  then return 0
MapLoop ==
    /\ pc = "map_loop"
    /\ LET n == IF dir = "rx" THEN rx_n ELSE tx_n
           buf == IF dir = "rx" THEN rx_i ELSE tx_i IN
       IF k < n
       THEN /\ cnt' = 0 /\ StartRead(buf[k], 0, 1, "map_cnt")
            /\ UNCHANGED <<dir, k>>
       ELSE IF dir = "rx"
       THEN dir' = "tx" /\ k' = 0 /\ UNCHANGED <<pc, rd, caller, cnt>>
       ELSE pc' = "built" /\ UNCHANGED <<dir, k, rd, caller, cnt>>
    /\ UNCHANGED <<variant, dev, err, mainVars, reqState, pending, sinceIssue,
                   ai, rx_i, tx_i, rx_n, tx_n, rx, tx, log, lastDec, codecVars, xchgVars, toolVars, tailVars>>

\* the pdo_t that out points to, with field f set
SetPdo(list, kk, p) == [list EXCEPT ![kk + 1] = p]

\* read_pdo_map after the read of subindex 0: the error return, the
\* (part_000 only) check for zero entries, out->pdo_index, out->entry_count,
\* out->entries = calloc(n, ...); if (!out->entries) return -1;
MapCount ==
    /\ pc = "rd_ret" /\ caller = "map_cnt"
    /\ IF ReadFailed(rd.res) THEN Fail("map_count") /\ UNCHANGED <<cnt, ai, rx, tx>>
       ELSE IF variant = "upl" /\ rd.val = 0
            THEN Fail("empty_map") /\ UNCHANGED <<cnt, ai, rx, tx>>
       ELSE \E null \in BOOLEAN :
            LET p == [pdo_index |-> rd.idx, entry_count |-> rd.val,
                      entries |-> IF null THEN <<>>
                                  ELSE [n \in 1..rd.val |-> ZeroEntry]] IN
            /\ IF dir = "rx" THEN rx' = SetPdo(rx, k, p) /\ tx' = tx
               ELSE tx' = SetPdo(tx, k, p) /\ rx' = rx
            /\ IF null THEN Fail("calloc") /\ UNCHANGED <<cnt, ai>>
               ELSE cnt' = rd.val /\ ai' = 0 /\ pc' = "map_item_loop" /\ err' = err
    /\ UNCHANGED <<variant, dev, mainVars, rd, reqState, pending, sinceIssue,
                   caller, dir, k, rx_i, tx_i, rx_n, tx_n, log, lastDec, codecVars, xchgVars, toolVars, tailVars>>

\* for (i=0;i<n;i++) read subindex i+1 as a 32-bit word;  then return 0
MapItemLoop ==
    /\ pc = "map_item_loop"
    /\ IF ai < cnt
       THEN /\ StartRead((IF dir = "rx" THEN rx ELSE tx)[k + 1].pdo_index,
                         NextSub(ai), 4, "map_item")
            /\ k' = k
       ELSE k' = k + 1 /\ pc' = "map_loop" /\ UNCHANGED <<rd, caller>>
    /\ UNCHANGED <<variant, dev, err, mainVars, reqState, pending, sinceIssue,
                   dir, cnt, ai, rx_i, tx_i, rx_n, tx_n, rx, tx, log, lastDec,
                   codecVars, xchgVars, toolVars, tailVars>>

\* out->entries[i].idx = map & 0xFFFF; .sub = (map >> 16) & 0xFF; .bits = ...
MapItem ==
    /\ pc = "rd_ret" /\ caller = "map_item"
    /\ IF ReadFailed(rd.res) THEN Fail("map_item") /\ UNCHANGED <<ai, rx, tx>>
       ELSE LET list == IF dir = "rx" THEN rx ELSE tx
                p == [list[k + 1] EXCEPT !.entries[ai + 1] = SplitWord(rd.val)] IN
            /\ IF dir = "rx" THEN rx' = SetPdo(rx, k, p) /\ tx' = tx
               ELSE tx' = SetPdo(tx, k, p) /\ rx' = rx
            /\ ai' = ai + 1 /\ pc' = "map_item_loop" /\ err' = err
    /\ UNCHANGED <<variant, dev, mainVars, rd, reqState, pending, sinceIssue,
                   caller, dir, cnt, k, rx_i, tx_i, rx_n, tx_n, log, lastDec,
                   codecVars, xchgVars, toolVars, tailVars>>

----------------------------------------------------------------------------
(* Layout: build_info, build_syncs, build_entry_regs and the registration  *)

NoRead == [idx |-> 0, sub |-> 0, size |-> 0, i |-> 0, polls |-> 0, sleeps |-> 0,
           saw |-> FALSE, created |-> FALSE, res |-> "none", val |-> 0]
NoDec == [size |-> 0, fail |-> FALSE, bytes |-> <<>>, rc |-> 0, v |-> 0]
NoTriple == [index |-> 0, subindex |-> 0, bits |-> 0]

\* calloc(n, ...): a zeroed array of n elements
Zeroed(n, z) == [j \in 1..n |-> z]

\* arr[j] = { p->entries[j].idx, .sub, .bits } for j < p->entry_count
PdoInfo(p) ==
    [index     |-> p.pdo_index,
     n_entries |-> p.entry_count,
     entries   |-> [j \in 1..p.entry_count |->
                      [index      |-> p.entries[j].index,
                       subindex   |-> p.entries[j].subindex,
                       bit_length |-> p.entries[j].bits]]]

\* build_info / make_infos: infos[k] for the RX list, then for the TX list
build_info(rxl, txl) ==
    [i \in 1..Len(rxl) |-> PdoInfo(rxl[i])] \o [i \in 1..Len(txl) |-> PdoInfo(txl[i])]

\* a manager 3 that points at the start of infos
TxPdosOf_FromStart(inf, nrx, ntx) == SubSeq(inf, 1, ntx)

\* .n_pdos = tx->count, .pdos = infos + rx->count: the PDOs manager 3 carries
TxPdosOf(inf, nrx, ntx) == SubSeq(inf, nrx + 1, nrx + ntx)

\* build_syncs / make_syncs: s = calloc(5, ...); s[0] .. s[4]
build_syncs(rxl, txl, inf) ==
    << [index |-> 0, dir |-> "output", n_pdos |-> 0, pdos |-> <<>>],
       [index |-> 1, dir |-> "input", n_pdos |-> 0, pdos |-> <<>>],
       [index |-> 2, dir |-> "output", n_pdos |-> Len(rxl),
        pdos |-> SubSeq(inf, 1, Len(rxl))],
       [index |-> 3, dir |-> "input", n_pdos |-> Len(txl),
        pdos |-> TxPdosOf(inf, Len(rxl), Len(txl))],
       [index |-> 255, dir |-> "invalid", n_pdos |-> 0, pdos |-> <<>>] >>

\* a total that counts the PDOs instead of their entries
TotalEntries_PdoCount(list) == Len(list)

\* for (i=0;i<rx->count;i++) total += rx->list[i].entry_count;
RECURSIVE TotalEntries(_)
TotalEntries(list) ==
    IF list = <<>> THEN 0
    ELSE Head(list).entry_count + TotalEntries(Tail(list))

\* the entries the two nested loops of build_entry_regs visit, in their order
RECURSIVE EntriesOf(_)
EntriesOf(list) ==
    IF list = <<>> THEN <<>>
    ELSE [j \in 1..Head(list).entry_count |-> Head(list).entries[j]]
            \o EntriesOf(Tail(list))

ZeroReg == [alias |-> 0, position |-> 0, vendor_id |-> 0, product_code |-> 0,
            index |-> 0, subindex |-> 0, offset |-> -1]

\* r[k].alias = 0; ... r[k].index = p->entries[j].idx; r[k].offset = &offs[k];
\* vendor 0x0000006c, product 0x0000a72c
RegOf(e, kk) ==
    [alias |-> 0, position |-> 0, vendor_id |-> 108, product_code |-> 42796,
     index |-> e.index, subindex |-> e.subindex, offset |-> kk]

\* a registration list with the TX loop ahead of the RX loop
RegOrder_TxFirst(rxl, txl) == EntriesOf(txl) \o EntriesOf(rxl)

\* "RX first", then "TX": the order in which the two loops fill r[k]
RegOrder(rxl, txl) == EntriesOf(rxl) \o EntriesOf(txl)

\* build_entry_regs / make_regs: r = calloc(total+1, ...); r[k] for every
\* entry; r[k] = {0}
build_entry_regs(rxl, txl) ==
    LET total == TotalEntries(rxl) + TotalEntries(txl)
        all == RegOrder(rxl, txl) IN
    [total |-> total,
     regs  |-> [n \in 1..(total + 1) |->
                  IF n <= Len(all) THEN RegOf(all[n], n - 1) ELSE ZeroReg],
     offs  |-> Zeroed(total, 0)]

\* The runtime's side of the registration. The process image holds the
\* entries of sync manager 2, then those of sync manager 3, each as many
\* bytes as its bit length says; an entry is looked up by (index, subindex).
RECURSIVE SyncEntries(_)
SyncEntries(pdos) ==
    IF pdos = <<>> THEN <<>>
    ELSE [j \in 1..Head(pdos).n_entries |-> Head(pdos).entries[j]]
            \o SyncEntries(Tail(pdos))

ImageOf(sy) == SyncEntries(sy[3].pdos) \o SyncEntries(sy[4].pdos)

\* the bytes taken by the entries img[lo] .. img[hi]
RECURSIVE BytesOf(_, _, _)
BytesOf(img, lo, hi) ==
    IF lo > hi THEN 0
    ELSE IF lo = hi THEN img[lo].bit_length \div 8
    ELSE LET mid == (lo + hi) \div 2 IN
         BytesOf(img, lo, mid) + BytesOf(img, mid + 1, hi)

\* the byte offsets the runtime writes through r[k].offset for the entries
\* es of a registration list; -1 for an entry the configuration lacks
RuntimeOffsets(sy, es) ==
    LET img == ImageOf(sy)
        first(r) == LET hits == {n \in 1..Len(img) :
                                    img[n].index = r.index
                                    /\ img[n].subindex = r.subindex} IN
                    IF hits = {} THEN 0
                    ELSE CHOOSE n \in hits : \A o \in hits : n <= o IN
    [n \in 1..Len(es) |->
        IF first(es[n]) = 0 THEN -1 ELSE BytesOf(img, 1, first(es[n]) - 1)]

\* the size of the process image in bytes
ImageBytes(sy) == BytesOf(ImageOf(sy), 1, Len(ImageOf(sy)))

\* ec_pdo_info_t *infos = build_info(&rx,&tx);
\* ec_sync_info_t *syncs = build_syncs(&rx,&tx,infos);
BuildLayout ==
    /\ pc = "built"
    /\ infos' = build_info(rx, tx)
    /\ syncs' = build_syncs(rx, tx, infos')
    /\ pc' = After(variant, "built")
    /\ rd' = NoRead /\ lastDec' = NoDec    \* locals of the reads: gone
    /\ UNCHANGED <<variant, dev, err, mainVars, reqState, pending,
                   sinceIssue, caller, discVars, log, codecVars, xchgVars, toolVars,
                   al_state, calls, regs, offs, nentries, viewVars, v3Vars>>

\* if (ecrt_slave_config_pdos(sc, EC_END, syncs)) { ...; return 1; }
ConfigPdos == RuntimeCall("config_pdos")

\* regs = build_entry_regs(&rx,&tx,&offs,&nentries);
BuildRegs ==
    /\ pc = "build_regs"
    /\ LET b == build_entry_regs(rx, tx) IN
        regs' = b.regs /\ offs' = b.offs /\ nentries' = b.total
    /\ pc' = After(variant, "build_regs")
    /\ UNCHANGED <<variant, dev, err, mainVars, rd, reqState, pending,
                   sinceIssue, caller, discVars, log, lastDec, codecVars, xchgVars, toolVars,
                   al_state, calls, infos, syncs, viewVars, v3Vars>>

\* the entries of the list up to its terminator (index 0)
RegEntries(r) ==
    LET ends == {n \in 1..Len(r) : r[n].index = 0} IN
    IF ends = {} THEN r
    ELSE SubSeq(r, 1, (CHOOSE n \in ends : \A o \in ends : n <= o) - 1)

\* if (ecrt_domain_reg_pdo_entry_list(dom, regs)) { ...; return 1; }
\* The runtime walks the list up to the terminator and writes each entry's
\* offset; it refuses a list with an entry the slave's configuration lacks.
RegList ==
    /\ pc = "reg_list"
    /\ LET es == RegEntries(regs)
           at == RuntimeOffsets(syncs, es)
           known == \A n \in 1..Len(es) : at[n] >= 0 IN
       \E rc \in (IF known THEN {0, -1} ELSE {-1}) :
        /\ calls' = Append(calls, <<"reg_list", rc = 0>>)
        /\ IF CallFailed(rc) THEN Fail("reg_list") /\ offs' = offs
           ELSE /\ pc' = After(variant, "reg_list") /\ err' = err
                /\ offs' = [n \in 1..Len(offs) |->
                              IF n <= Len(es) /\ rc = 0 THEN at[n] ELSE offs[n]]
    /\ UNCHANGED <<variant, dev, mainVars, rd, reqState, pending, sinceIssue,
                   caller, discVars, log, lastDec, codecVars, xchgVars, toolVars, al_state, infos,
                   syncs, regs, nentries, viewVars, v3Vars>>

----------------------------------------------------------------------------
(* The viewer of v6.0, part_000 and part_001: sm3_base and the cyclic loop *)

\* passes of the endless cyclic loop that are explored
MaxCycles == 2

\* the fields of the JSON file: offset within SM3 and width (1=u8,2=u16,4=u32)
Fields == [offset : 0..3, type : {1, 2, 4}]

NoField == [offset |-> 0, type |-> 0, valid |-> 0, bytes |-> <<>>]

\* uint8_t *pd = ecrt_domain_data(dom);   v3.0 alone checks it for NULL
DomainData ==
    /\ pc = "domain_data"
    /\ \E null \in (IF variant = "v3" THEN BOOLEAN ELSE {FALSE}) :
        /\ calls' = Append(calls, <<"domain_data", ~null>>)
        /\ IF null THEN Fail("domain_data") /\ pd' = pd
           ELSE pd' = TRUE /\ pc' = After(variant, "domain_data") /\ err' = err
    /\ UNCHANGED <<variant, dev, mainVars, rd, reqState, pending, sinceIssue,
                   caller, discVars, log, lastDec, codecVars, xchgVars, toolVars, al_state,
                   layoutVars, sm3_base, cycles, lastField, v3Vars>>

\* what a read behind the end of offs may return
StrayValues == {0, 255}

\* rx_entries = sum of rx.list[i].entry_count; sm3_base = offs[rx_entries];
\* offs has nentries elements: with no TX entry the read is behind its end
Sm3Base ==
    /\ pc = "sm3_base"
    /\ LET rx_entries == TotalEntries(rx) IN
       IF rx_entries < Len(offs) THEN sm3_base' = offs[rx_entries + 1]
       ELSE sm3_base' \in StrayValues
    /\ pc' = After(variant, "sm3_base")
    /\ UNCHANGED <<variant, dev, err, mainVars, rd, reqState, pending,
                   sinceIssue, caller, discVars, log, lastDec, codecVars, xchgVars, toolVars,
                   al_state, calls, layoutVars, pd, cycles, lastField, v3Vars>>

\* the image bytes a field of `width` bytes at image offset `off` is read from:
\* pd[off], pd[off+1], ...
Contiguous(off, width) == [n \in 1..width |-> off + n - 1]

\* The runtime calls of one pass of the cyclic loop, with the reads of the
\* fields: receive; process; the fields; queue; send in v6.0, part_000 and
\* part_001; v3.0 has no ecrt_domain_queue in its loop.
ViewCycle(v) ==
    IF v = "v3" THEN <<"receive", "process", "read", "send">>
    ELSE <<"receive", "process", "read", "queue", "send">>

\* one field of one pass of  while (1) { receive; process; for each field:
\* off = sm3_base + fields[i].offset; v = pd[off] | ...; queue; send; usleep }
Cyclic ==
    /\ pc = "cyclic" /\ variant # "v3" /\ cycles < MaxCycles
    /\ \E f \in Fields :
        lastField' = [offset |-> f.offset, type |-> f.type, valid |-> 1,
                      bytes |-> Contiguous(sm3_base + f.offset, f.type)]
    /\ cycles' = cycles + 1
    /\ xchg' = ViewCycle(variant)
    /\ UNCHANGED <<variant, dev, pc, err, mainVars, rd, reqState, pending,
                   sinceIssue, caller, discVars, log, lastDec, codecVars, op_iters,
                   toolVars, al_state, calls, layoutVars, pd, sm3_base, v3Vars>>

----------------------------------------------------------------------------
(* v3.0: the static table, wait_for_op, map_fields_to_domain, the viewer   *)

\* #define SM2_BYTES 62, #define SM3_BYTES 234
SM2_BYTES == 62
SM3_BYTES == 234
\* int wait_op_ms = 7000;   elapsed += 10;
DefaultWaitOpMs == 7000
WaitOpStep == 10

\* INT_MAX of the 32-bit int that elapsed and timeout_ms are
IntMax == 2147483647

\* --wait-op-ms values that are explored
WaitOpInputs == {-1, 0, 25, DefaultWaitOpMs}

\* sm2_e[i] = { 0x7000, (uint8_t)(i+1), 8 };  sm3_e[i] = { 0x6000, ... }
StaticEntries(index, n) ==
    [j \in 1..n |-> [index |-> index, subindex |-> j % 256, bit_length |-> 8]]

\* sm2_pdos[] = { { 0x1600, SM2_BYTES, sm2_e } }; sm3_pdos[] = { { 0x1A00, ... } }
StaticInfos ==
    << [index |-> RxPdoBase, n_entries |-> SM2_BYTES,
        entries |-> StaticEntries(28672, SM2_BYTES)],
       [index |-> TxPdoBase, n_entries |-> SM3_BYTES,
        entries |-> StaticEntries(24576, SM3_BYTES)] >>

\* ec_sync_info_t syncs[] = { {0, OUTPUT, 0, NULL}, {1, INPUT, 0, NULL},
\*     {2, OUTPUT, 1, sm2_pdos}, {3, INPUT, 1, sm3_pdos}, {0xff} }
StaticSyncs ==
    << [index |-> 0, dir |-> "output", n_pdos |-> 0, pdos |-> <<>>],
       [index |-> 1, dir |-> "input", n_pdos |-> 0, pdos |-> <<>>],
       [index |-> 2, dir |-> "output", n_pdos |-> 1, pdos |-> <<StaticInfos[1]>>],
       [index |-> 3, dir |-> "input", n_pdos |-> 1, pdos |-> <<StaticInfos[2]>>],
       [index |-> 255, dir |-> "invalid", n_pdos |-> 0, pdos |-> <<>>] >>

\* regs = calloc(TOTAL_BYTES + 1, ...); SM2 entries, then SM3 entries; the
\* terminator is the zeroed last element
StaticRegsOf ==
    LET all == StaticEntries(28672, SM2_BYTES) \o StaticEntries(24576, SM3_BYTES) IN
    [n \in 1..(SM2_BYTES + SM3_BYTES + 1) |->
        IF n <= Len(all) THEN RegOf(all[n], n - 1) ELSE ZeroReg]

\* the table of setup_and_register; if (!sm2_e || !sm3_e) return -1;
StaticTable ==
    /\ pc = "static_table"
    /\ \E null \in BOOLEAN :
        IF null THEN Fail("calloc") /\ UNCHANGED <<infos, syncs>>
        ELSE /\ infos' = StaticInfos /\ syncs' = StaticSyncs
             /\ pc' = After(variant, "static_table") /\ err' = err
    /\ UNCHANGED <<variant, dev, mainVars, rd, reqState, pending, sinceIssue,
                   caller, discVars, log, lastDec, codecVars, xchgVars, toolVars, al_state, calls,
                   regs, offs, nentries, viewVars, v3Vars>>

\* regs, offs of setup_and_register; if (!regs || !offs) return -1;
StaticRegs ==
    /\ pc = "static_regs"
    /\ \E null \in BOOLEAN :
        IF null THEN Fail("calloc") /\ UNCHANGED <<regs, offs, nentries>>
        ELSE /\ regs' = StaticRegsOf
             /\ offs' = Zeroed(SM2_BYTES + SM3_BYTES, 0)
             /\ nentries' = SM2_BYTES + SM3_BYTES
             /\ pc' = After(variant, "static_regs") /\ err' = err
    /\ UNCHANGED <<variant, dev, mainVars, rd, reqState, pending, sinceIssue,
                   caller, discVars, log, lastDec, codecVars, xchgVars, toolVars, al_state, calls,
                   infos, syncs, viewVars, v3Vars>>

\* The runtime calls of one iteration of the loop of wait_for_op: receive;
\* process; (the states are read;) if (OP) return 0; send. The loop has no
\* ecrt_domain_queue.
WaitOpCycle(op) ==
    IF op THEN <<"receive", "process">> ELSE <<"receive", "process", "send">>

\* iterations that are followed after elapsed has wrapped around
MaxWrapped == 2

\* elapsed += 10;  Behind INT_MAX the addition overflows, which the language
\* leaves undefined: a build either wraps the sum around (modulo 2^32) or
\* keeps it in a wider register, where it is below no timeout (written
\* IntMax).
ElapsedAfter(e) ==
    IF e <= IntMax - WaitOpStep THEN {e + WaitOpStep}
    ELSE {(e - IntMax - 1) + (WaitOpStep - IntMax - 1), IntMax}

\* one evaluation of  while (elapsed < timeout_ms) { receive; process; state;
\* if (al_state == OP) return 0; send; usleep(10000); elapsed += 10; }
\* and, once the condition fails,  return -1;
WaitOp ==
    /\ pc = "wait_op"
    /\ IF elapsed >= 0 THEN TRUE
       ELSE (elapsed + IntMax + 1) \div WaitOpStep < MaxWrapped
    /\ IF elapsed < wait_op_ms
       THEN /\ op_iters' = op_iters + 1
            /\ xchg' = WaitOpCycle(al_state = "op")
            /\ IF al_state = "op"
               THEN opRc' = 0 /\ pc' = After(variant, "wait_op") /\ elapsed' = elapsed
               ELSE elapsed' \in ElapsedAfter(elapsed) /\ UNCHANGED <<opRc, pc>>
       ELSE /\ opRc' = -1 /\ pc' = After(variant, "wait_op") /\ elapsed' = elapsed
            /\ UNCHANGED xchgVars
    /\ UNCHANGED <<variant, dev, err, mainVars, rd, reqState, pending,
                   sinceIssue, caller, discVars, log, lastDec, codecVars, toolVars,
                   al_state, calls, layoutVars, viewVars, wait_op_ms, fl>>

\* a viewer that gives up when OP was not reached
AfterWaitOp_Fatal(rc) == IF rc # 0 THEN "failed" ELSE "map_fields"

\* if (wait_for_op(...) != 0) { fprintf(stderr, "WARNING: Not in OP. ..."); }
\* and main goes on in both cases
AfterWaitOp(rc) == "map_fields"

OpResult ==
    /\ pc = "op_result"
    /\ pc' = AfterWaitOp(opRc)
    /\ err' = IF pc' = "failed" THEN "wait_op" ELSE err
    /\ UNCHANGED <<variant, dev, mainVars, rd, reqState, pending, sinceIssue,
                   caller, discVars, log, lastDec, codecVars, xchgVars, toolVars, tailVars>>

\* T_U8 / T_U16 / T_U32 as the number of bytes `need`
V3Types == {1, 2, 4}
\* logical offsets of the fields that are explored
V3Offsets == {-1, 0, 1, SM3_BYTES - 4, SM3_BYTES - 2, SM3_BYTES - 1, SM3_BYTES}

\* a field as load_sm3_fields_from_json leaves it: valid = 0, dom_off[k] = ~0u
\* (written -1)
LoadedField(off, ty) ==
    [logical_offset |-> off, type |-> ty, valid |-> 0,
     dom_off |-> [n \in 0..3 |-> -1]]

\* sm3_dom_off[i] = all_offsets[SM2_BYTES + i]
Sm3DomOff(all_offsets, i) == all_offsets[SM2_BYTES + i + 1]

\* map_fields_to_domain, for one field
MapField(f, all_offsets) ==
    LET base == f.logical_offset
        need == f.type IN
    IF base < 0 \/ base + need > SM3_BYTES THEN [f EXCEPT !.valid = 0]
    ELSE [f EXCEPT !.valid = 1,
                   !.dom_off = [n \in 0..3 |->
                                  IF n < need THEN Sm3DomOff(all_offsets, base + n)
                                  ELSE f.dom_off[n]]]

\* The field list is an input that nothing reads before this call; its
\* content is drawn here.
map_fields_to_domain ==
    /\ pc = "map_fields"
    /\ \E off \in V3Offsets, ty \in V3Types :
        fl' = <<MapField(LoadedField(off, ty), offs)>>
    /\ pc' = After(variant, "map_fields")
    /\ UNCHANGED <<variant, dev, err, mainVars, rd, reqState, pending,
                   sinceIssue, caller, discVars, log, lastDec, codecVars, xchgVars, toolVars,
                   al_state, calls, layoutVars, viewVars, wait_op_ms, elapsed,
                   opRc>>

\* one field of one pass of  while ((ch = getch()) != 'q') { receive; process;
\* for each field: if (!valid) { "[INVALID/OOB ...]"; continue; }
\* v = dom[dom_off[0]] | ...; send; usleep }
CyclicV3 ==
    /\ pc = "cyclic" /\ variant = "v3" /\ cycles < MaxCycles
    /\ \E n \in 1..Len(fl) :
        lastField' = [offset |-> fl[n].logical_offset, type |-> fl[n].type,
                      valid |-> fl[n].valid,
                      bytes |-> IF fl[n].valid = 1
                                THEN [b \in 1..fl[n].type |-> fl[n].dom_off[b - 1]]
                                ELSE <<>>]
    /\ cycles' = cycles + 1
    /\ xchg' = ViewCycle(variant)
    /\ UNCHANGED <<variant, dev, pc, err, mainVars, rd, reqState, pending,
                   sinceIssue, caller, discVars, log, lastDec, codecVars, op_iters,
                   toolVars, al_state, calls, layoutVars, pd, sm3_base, v3Vars>>

----------------------------------------------------------------------------
(* The pipeline                                                            *)

\* ecat_cfgdiag has not run
NoDiag == [sm2 |-> 0, sm3 |-> 0, infos |-> <<>>, size |-> 0, msgs |-> <<>>,
           failures |-> 0, validated |-> FALSE, rc |-> 0]

\* the state of the variables that follow the discovery, before main starts
InitTail ==
    /\ al_state = "init" /\ calls = <<>>
    /\ infos = <<>> /\ syncs = <<>> /\ regs = <<>> /\ offs = <<>> /\ nentries = 0
    /\ pd = FALSE /\ sm3_base = 0 /\ cycles = 0 /\ lastField = NoField
    /\ elapsed = 0 /\ opRc = 1
    /\ tool = "none" /\ dom = <<>> /\ vals = <<>> /\ diag = NoDiag
    /\ xchg = <<>> /\ op_iters = 0

InitDisc ==
    /\ pc = "request_master" /\ err = "none"
    /\ loop_i = 0 /\ sawPreop = FALSE
    /\ rd = NoRead /\ reqState = "none" /\ pending = 0 /\ sinceIssue = 0
    /\ dir = "rx" /\ caller = "none" /\ cnt = 0 /\ ai = 0 /\ k = 0
    /\ rx_i = [n \in 0..(MaxAssign - 1) |-> -1]
    /\ tx_i = [n \in 0..(MaxAssign - 1) |-> -1]
    /\ rx_n = 0 /\ tx_n = 0 /\ rx = <<>> /\ tx = <<>>
    /\ log = <<>> /\ lastDec = NoDec
    /\ triple = NoTriple /\ raw = <<>> /\ decoded = NoTriple

Init ==
    /\ InitDisc /\ InitTail
    /\ \/ /\ variant \in {"req", "req1", "upl"}
          /\ dev \in Devices
          /\ wait_op_ms = 0 /\ fl = <<>>
       \/ /\ variant = "v3"
          /\ dev = [rxc |-> 1, txc |-> 1, m |-> 1]
          /\ wait_op_ms \in WaitOpInputs
          /\ fl = <<>>

Next ==
    \/ RequestMaster \/ CreateDomain \/ SlaveConfig \/ Activate
    \/ SlaveAdvance \/ WaitPreop \/ Warmup
    \/ Build \/ AssignCount \/ AssignLoop \/ AssignItem \/ AllocLists
    \/ MapLoop \/ MapCount \/ MapItemLoop \/ MapItem
    \/ ReadIssue \/ ReadPoll \/ ReadUpload
    \/ BuildLayout \/ ConfigPdos \/ BuildRegs \/ RegList
    \/ DomainData \/ Sm3Base \/ Cyclic
    \/ StaticTable \/ StaticRegs \/ WaitOp \/ OpResult
    \/ map_fields_to_domain \/ CyclicV3

Spec == Init /\ [][Next]_vars

\* The bring-up alone, up to the first dictionary read. The program's own
\* steps are taken as long as they are possible; the slave owes nothing.
BringupSteps ==
    \/ RequestMaster \/ CreateDomain \/ SlaveConfig \/ Activate
    \/ WaitPreop \/ Warmup

NextBringup == BringupSteps \/ SlaveAdvance

SpecBringup == Init /\ [][NextBringup]_vars /\ WF_vars(BringupSteps)

\* wait_for_op of v3.0 from any iteration of its loop: main has come to the
\* call at line 298 with every earlier call accepted, and the loop is at its
\* head with elapsed a multiple of 10 that is below the timeout (0 on entry).
\* An iteration that began with the slave in OP has returned, so the slave
\* may be in any state at the head.
WaitOpTimeouts == WaitOpInputs \cup {1, 10, 30, IntMax - 7, IntMax}

\* the loop heads that are explored: the first ones of a run with a timeout
\* up to the default, the last ones of a run with a longer timeout
LoopHeads(t) ==
    IF t <= DefaultWaitOpMs THEN {e \in {0, 10, 20} : e = 0 \/ e < t}
    ELSE {e \in {IntMax - 27, IntMax - 17, IntMax - 7} : e < t}

InitWaitOp ==
    /\ variant = "v3" /\ dev = [rxc |-> 1, txc |-> 1, m |-> 1]
    /\ pc = "wait_op" /\ err = "none" /\ loop_i = 0 /\ sawPreop = FALSE
    /\ rd = NoRead /\ reqState = "none" /\ pending = 0 /\ sinceIssue = 0
    /\ dir = "rx" /\ caller = "none" /\ cnt = 0 /\ ai = 0 /\ k = 0
    /\ rx_i = [n \in 0..(MaxAssign - 1) |-> -1]
    /\ tx_i = [n \in 0..(MaxAssign - 1) |-> -1]
    /\ rx_n = 0 /\ tx_n = 0 /\ rx = <<>> /\ tx = <<>>
    /\ log = <<>> /\ lastDec = NoDec
    /\ triple = NoTriple /\ raw = <<>> /\ decoded = NoTriple
    /\ calls = << <<"request_master", TRUE>>, <<"slave_config", TRUE>>,
                  <<"config_pdos", TRUE>>, <<"create_domain", TRUE>>,
                  <<"reg_list", TRUE>>, <<"activate", TRUE>>,
                  <<"domain_data", TRUE>> >>
    /\ infos = StaticInfos /\ syncs = StaticSyncs /\ regs = StaticRegsOf
    /\ offs = RuntimeOffsets(StaticSyncs, RegEntries(StaticRegsOf))
    /\ nentries = SM2_BYTES + SM3_BYTES
    /\ pd = TRUE /\ sm3_base = 0 /\ cycles = 0 /\ lastField = NoField
    /\ opRc = 1 /\ fl = <<>>
    /\ tool = "none" /\ dom = <<>> /\ vals = <<>> /\ diag = NoDiag
    /\ al_state \in {"init", "preop", "safeop", "op"}
    /\ wait_op_ms \in WaitOpTimeouts
    /\ elapsed \in LoopHeads(wait_op_ms)
    /\ op_iters = elapsed \div WaitOpStep
    /\ xchg = IF elapsed = 0 THEN <<>> ELSE WaitOpCycle(FALSE)

NextWaitOp == WaitOp \/ SlaveAdvance \/ OpResult

SpecWaitOp == InitWaitOp /\ [][NextWaitOp]_vars

----------------------------------------------------------------------------
(* The resolvers and the readers of the viewers on their own: a layout, an  *)
(* image and a field list are drawn, the fields are resolved and one pass   *)
(* of the viewer loop is made.                                              *)
(*   "v1"  src/tools/ecat_liveviewer_v1.0.c (one real offset per field)     *)
(*   "v2"  src/tools/ecat_liveviewer_v2.0.c (per-byte offsets; v3.0 has the *)
(*         same resolver and the same readers)                              *)
(*   "v6"  src/tools/ecat_liveviewer_v6.0.c (sm3_base + offset)             *)

Tools == {"v1", "v2", "v6"}

\* the number of fields of the JSON file
MaxFields == 2

\* where the runtime puts one byte of padding: before the input entry of
\* this position (0: nowhere)
GapAt == {0, 1, 2}

\* registered output entries and registered entries in all, per viewer
OutputCounts(t) == IF t = "v6" THEN {1, 2} ELSE {SM2_BYTES}
TotalCount(t, nout) == IF t = "v6" THEN nout + 3 ELSE SM2_BYTES + SM3_BYTES

\* the offsets the registration writes for `total` 8-bit entries, `nout` of
\* them outputs, with the padding of `gap`
OffsetsOf(total, nout, gap) ==
    [e \in 1..total |->
        (e - 1) + (IF gap > 0 /\ (e - 1) >= nout + gap THEN 1 ELSE 0)]

\* the bytes of an image of `size` bytes: all zero, or all different from
\* their neighbours
Images(size) ==
    {[o \in 1..size |-> 0], [o \in 1..size |-> ((o - 1) * 7 + 1) % 256]}

\* a field as load_field_list of v1.0 leaves it (calloc: real_offset = 0)
LoadedFieldV1(off, ty) == [logical_offset |-> off, type |-> ty, real_offset |-> 0]

\* a field as load_fields of v6.0 leaves it
LoadedFieldV6(off, ty) == [offset |-> off, type |-> ty]

\* the fields a JSON file can hold, per viewer
LoadedFields(t) ==
    IF t = "v1" THEN {LoadedFieldV1(off, ty) : off \in V3Offsets, ty \in V3Types}
    ELSE IF t = "v2" THEN {LoadedField(off, ty) : off \in V3Offsets, ty \in V3Types}
    ELSE {LoadedFieldV6(f.offset, f.type) : f \in Fields}

FieldLists(t) == UNION {[1..n -> LoadedFields(t)] : n \in 1..MaxFields}

\* an RX list of one PDO with n entries of 8 bits
RxListOf(n) ==
    <<[pdo_index |-> RxPdoBase, entry_count |-> n,
       entries |-> [j \in 1..n |-> [index |-> 28672, subindex |-> j, bits |-> 8]]]>>

\* 0xFFFFFFFF in an unsigned real_offset (written -1)
InvalidOffset == -1

\* v1.0 main: if (logical<0 || logical>=SM3_BYTES) { real_offset = 0xFFFFFFFF;
\* continue; }  real_offset = offsets[SM2_BYTES + logical];
MapFieldV1(f, offsets) ==
    LET logical == f.logical_offset IN
    IF logical < 0 \/ logical >= SM3_BYTES
    THEN [f EXCEPT !.real_offset = InvalidOffset]
    ELSE [f EXCEPT !.real_offset = offsets[SM2_BYTES + logical + 1]]

\* a loop that stops at the first field out of bounds
AfterInvalid_Break(f, count) == count + 1

\* `continue;` in the loop over the fields: on with the next field
AfterInvalid(f, count) == f + 1

\* map_fields_to_domain: for (size_t f=0; f<fl->count; f++) { ... }
RECURSIVE MapFieldsFrom(_, _, _)
MapFieldsFrom(arr, f, all_offsets) ==
    IF f > Len(arr) THEN arr
    ELSE LET r == MapField(arr[f], all_offsets)
             nxt == IF r.valid = 0 THEN AfterInvalid(f, Len(arr)) ELSE f + 1 IN
         MapFieldsFrom([arr EXCEPT ![f] = r], nxt, all_offsets)

\* dom[o]; behind the image the read returns whatever lies there
DomAt(img, o, stray) == IF o >= 0 /\ o < Len(img) THEN img[o + 1] ELSE stray

\* b0 | (b1<<8) | (b2<<16) | (b3<<24) of the bytes read at the offsets os,
\* as the two 16-bit halves of the uint32_t
AssembleLE(img, os, stray) ==
    LET b(n) == IF n <= Len(os) THEN DomAt(img, os[n], stray) ELSE 0 IN
    U32(b(1), b(2), b(3), b(4))

\* the per-byte offsets read_u8 / read_u16_le / read_u32_le go through
DomOffs(fld) == [n \in 1..fld.type |-> fld.dom_off[n - 1]]

\* an invalid field read as 0xFFFFFFFF
InvalidValue_AllOnes == U32(255, 255, 255, 255)

\* read_field_value: if (!fld->valid) return 0;
InvalidValue == U32(0, 0, 0, 0)

\* read_field_value of v2.0
read_field_value(img, fld, stray) ==
    IF fld.valid = 0 THEN InvalidValue
    ELSE AssembleLE(img, DomOffs(fld), stray)

\* what the viewer treats as a field it can read
Usable(t, f) ==
    IF t = "v1" THEN f.real_offset # InvalidOffset
    ELSE IF t = "v2" THEN f.valid = 1
    ELSE TRUE

\* the image offsets the viewer reads the field from
BytesRead(t, f, base) ==
    IF t = "v1" THEN Contiguous(f.real_offset, f.type)
    ELSE IF t = "v2" THEN DomOffs(f)
    ELSE Contiguous(base + f.offset, f.type)

\* v1.0 213-224 / map_fields_to_domain of v2.0; v6.0 resolves nothing ahead
\* of the loop (its sm3_base is computed by Sm3Base)
ResolveFields ==
    /\ variant = "fields" /\ pc = "map_fields"
    /\ fl' = IF tool = "v1" THEN [n \in 1..Len(fl) |-> MapFieldV1(fl[n], offs)]
             ELSE MapFieldsFrom(fl, 1, offs)
    /\ pc' = "cyclic"
    /\ UNCHANGED <<variant, dev, err, mainVars, rd, reqState, pending,
                   sinceIssue, caller, discVars, log, lastDec, codecVars, xchgVars,
                   al_state, calls, layoutVars, viewVars, wait_op_ms, elapsed,
                   opRc, tool, dom, vals, diag>>

\* one pass of the viewer loop over the fields: a field that is not usable
\* gets its INVALID line, every other one is read and shown
ViewFields ==
    /\ variant = "fields" /\ pc = "cyclic"
    /\ \E stray \in StrayValues :
        vals' = [n \in 1..Len(fl) |->
                   IF Usable(tool, fl[n])
                   THEN [by |-> "main", shown |-> TRUE,
                         bytes |-> BytesRead(tool, fl[n], sm3_base),
                         v |-> AssembleLE(dom, BytesRead(tool, fl[n], sm3_base),
                                          stray)]
                   ELSE [by |-> "main", shown |-> FALSE, bytes |-> <<>>,
                         v |-> U32(0, 0, 0, 0)]]
    /\ pc' = "viewed"
    /\ UNCHANGED <<variant, dev, err, mainVars, rd, reqState, pending,
                   sinceIssue, caller, discVars, log, lastDec, codecVars, xchgVars,
                   tailVars, tool, dom, diag>>

\* read_field_value of v2.0 applied to every field of the list
ReadFieldValue ==
    /\ variant = "fields" /\ pc = "cyclic" /\ tool = "v2"
    /\ \E stray \in StrayValues :
        vals' = [n \in 1..Len(fl) |->
                   [by |-> "read_field_value", shown |-> fl[n].valid = 1,
                    bytes |-> IF fl[n].valid = 1 THEN DomOffs(fl[n]) ELSE <<>>,
                    v |-> read_field_value(dom, fl[n], stray)]]
    /\ pc' = "read"
    /\ UNCHANGED <<variant, dev, err, mainVars, rd, reqState, pending,
                   sinceIssue, caller, discVars, log, lastDec, codecVars, xchgVars,
                   tailVars, tool, dom, diag>>

InitFields ==
    /\ variant = "fields"
    /\ dev = [rxc |-> 1, txc |-> 1, m |-> 1]
    /\ err = "none" /\ loop_i = 0 /\ sawPreop = FALSE
    /\ rd = NoRead /\ reqState = "none" /\ pending = 0 /\ sinceIssue = 0
    /\ dir = "rx" /\ caller = "none" /\ cnt = 0 /\ ai = 0 /\ k = 0
    /\ rx_i = [n \in 0..(MaxAssign - 1) |-> -1]
    /\ tx_i = [n \in 0..(MaxAssign - 1) |-> -1]
    /\ rx_n = 0 /\ tx_n = 0 /\ tx = <<>>
    /\ log = <<>> /\ lastDec = NoDec
    /\ triple = NoTriple /\ raw = <<>> /\ decoded = NoTriple
    /\ al_state = "op" /\ calls = <<>>
    /\ infos = <<>> /\ syncs = <<>> /\ regs = <<>>
    /\ pd = TRUE /\ sm3_base = 0 /\ cycles = 0 /\ lastField = NoField
    /\ wait_op_ms = 0 /\ elapsed = 0 /\ opRc = 1
    /\ vals = <<>> /\ diag = NoDiag
    /\ xchg = <<>> /\ op_iters = 0
    /\ tool \in Tools
    /\ \E nout \in OutputCounts(tool), gap \in GapAt :
        LET total == TotalCount(tool, nout) IN
        /\ rx = IF tool = "v6" THEN RxListOf(nout) ELSE <<>>
        /\ nentries = total
        /\ offs = OffsetsOf(total, nout, gap)
        /\ dom \in Images(total + (IF gap > 0 THEN 1 ELSE 0))
    /\ fl \in FieldLists(tool)
    /\ pc = IF tool = "v6" THEN "sm3_base" ELSE "map_fields"

NextFields == ResolveFields \/ Sm3Base \/ ViewFields \/ ReadFieldValue

SpecFields == InitFields /\ [][NextFields]_vars

----------------------------------------------------------------------------
(* src/tools/ecat_cfgdiag.c: build_domain_and_print_offsets registers one   *)
(* 8-bit entry per configured byte, SM2 first and SM3 after it, and then    *)
(* runs its validations over the offsets the runtime has written.           *)

\* the number of entries registered (sm2.size_bytes + sm3.size_bytes)
MaxDiagEntries == 3

\* reg_info_t { byte; bit; } as the runtime may write it
RegInfos == [byte : 0..MaxDiagEntries, bit : {0, 1}]

\* the largest byte offset written
RECURSIVE LastByte(_)
LastByte(infos_) ==
    IF infos_ = <<>> THEN -1
    ELSE LET rest == LastByte(Tail(infos_)) IN
         IF Head(infos_).byte > rest THEN Head(infos_).byte ELSE rest

\* ecrt_domain_size: the image holds every registered byte, and padding
DomainSizes(infos_) == (LastByte(infos_) + 1)..(MaxDiagEntries + 1)

\* ecrt_domain_reg_pdo_entry_list and ecrt_master_activate: on success the
\* runtime has written infos[ix].byte and infos[ix].bit of every entry
DiagRegister ==
    /\ variant = "diag" /\ pc = "diag_reg"
    /\ \E rc \in {0, -1} :
        IF CallFailed(rc)
        THEN /\ diag' = [diag EXCEPT !.rc = -1]
             /\ pc' = "diag_done"
        ELSE /\ \E w \in [1..(diag.sm2 + diag.sm3) -> RegInfos] :
                \E sz \in DomainSizes(w) :
                    diag' = [diag EXCEPT !.infos = w, !.size = sz]
             /\ pc' = "diag_validate"
    /\ UNCHANGED <<variant, dev, err, mainVars, rd, reqState, pending,
                   sinceIssue, caller, discVars, log, lastDec, codecVars, xchgVars,
                   tailVars, tool, dom, vals>>

\* if (infos[i].bit != 0)
BitViolation(inf) == inf.bit # 0

\* infos[i].byte == infos[i-1].byte + 1 || infos[i].byte == infos[i-1].byte
JumpAllowed(prev, cur) == cur = prev + 1 \/ cur = prev

\* a first entry that is never looked at
FirstViolation_Never(byte) == FALSE

\* if (infos[i].byte != 0)   for i == 0
FirstViolation(byte) == byte # 0

\* a size compared with one more than the number of entries
SizeViolation_PlusOne(size, total) == size # total + 1

\* if (ecrt_domain_size(domain) != total)
SizeViolation(size, total) == size # total

\* for (size_t i = 0; i < total; i++) { ... failures++; ... }: the messages
\* written from entry i on, each one with its failures++
RECURSIVE CheckFrom(_, _)
CheckFrom(infos_, i) ==
    IF i >= Len(infos_) THEN <<>>
    ELSE LET cur == infos_[i + 1]
             bitm == IF BitViolation(cur) THEN << <<"bit", i>> >> ELSE <<>>
             offm == IF i > 0
                     THEN IF ~JumpAllowed(infos_[i].byte, cur.byte) /\ cur.byte # i
                          THEN << <<"jump", i>> >> ELSE <<>>
                     ELSE IF FirstViolation(cur.byte)
                          THEN << <<"first", 0>> >> ELSE <<>> IN
         bitm \o offm \o CheckFrom(infos_, i + 1)

\* "Unit-test style validations": the loop, then the size test
DiagValidate ==
    /\ variant = "diag" /\ pc = "diag_validate"
    /\ LET total == diag.sm2 + diag.sm3
           m == CheckFrom(diag.infos, 0)
                  \o (IF SizeViolation(diag.size, total)
                      THEN << <<"size", diag.size>> >> ELSE <<>>) IN
       diag' = [diag EXCEPT !.msgs = m, !.failures = Len(m), !.validated = TRUE]
    /\ pc' = "diag_return"
    /\ UNCHANGED <<variant, dev, err, mainVars, rd, reqState, pending,
                   sinceIssue, caller, discVars, log, lastDec, codecVars, xchgVars,
                   tailVars, tool, dom, vals>>

\* if (failures) { "VALIDATION FAILED"; return -1; } else "VALIDATION PASSED";
\* return 0;
DiagReturn ==
    /\ variant = "diag" /\ pc = "diag_return"
    /\ diag' = [diag EXCEPT !.rc = IF diag.failures # 0 THEN -1 ELSE 0]
    /\ pc' = "diag_done"
    /\ UNCHANGED <<variant, dev, err, mainVars, rd, reqState, pending,
                   sinceIssue, caller, discVars, log, lastDec, codecVars, xchgVars,
                   tailVars, tool, dom, vals>>

InitDiag ==
    /\ variant = "diag" /\ pc = "diag_reg"
    /\ dev = [rxc |-> 1, txc |-> 1, m |-> 1]
    /\ err = "none" /\ loop_i = 0 /\ sawPreop = FALSE
    /\ rd = NoRead /\ reqState = "none" /\ pending = 0 /\ sinceIssue = 0
    /\ dir = "rx" /\ caller = "none" /\ cnt = 0 /\ ai = 0 /\ k = 0
    /\ rx_i = [n \in 0..(MaxAssign - 1) |-> -1]
    /\ tx_i = [n \in 0..(MaxAssign - 1) |-> -1]
    /\ rx_n = 0 /\ tx_n = 0 /\ rx = <<>> /\ tx = <<>>
    /\ log = <<>> /\ lastDec = NoDec
    /\ triple = NoTriple /\ raw = <<>> /\ decoded = NoTriple
    /\ al_state = "init" /\ calls = <<>>
    /\ infos = <<>> /\ syncs = <<>> /\ regs = <<>> /\ offs = <<>> /\ nentries = 0
    /\ pd = FALSE /\ sm3_base = 0 /\ cycles = 0 /\ lastField = NoField
    /\ wait_op_ms = 0 /\ elapsed = 0 /\ opRc = 1 /\ fl = <<>>
    /\ tool = "none" /\ dom = <<>> /\ vals = <<>>
    /\ xchg = <<>> /\ op_iters = 0
    /\ \E a \in {0, 1} : \E b \in 0..(MaxDiagEntries - a) :
        diag = [NoDiag EXCEPT !.sm2 = a, !.sm3 = b]

NextDiag == DiagRegister \/ DiagValidate \/ DiagReturn

SpecDiag == InitDiag /\ [][NextDiag]_vars

----------------------------------------------------------------------------
(* The per-byte entry tables of src/tools/ecat_cfgdiag.c (load_json and     *)
(* configure_slave, from the sizes of the JSON file) and of                 *)
(* src/tools/ecat_dump_raw.c (main, from its constants).                    *)

\* #define MAX_SM3_SCAN 512
MAX_SM3_SCAN == 512
\* max_bytes_per_direction when the JSON file gives none
DefaultMaxBytes == 250

\* size_bytes and max_bytes_per_direction values a JSON file may hold
SizeInputs == {-1, 0, 1, SM2_BYTES, SM3_BYTES, DefaultMaxBytes, 255, 256, 257, 300}

\* load_json: size_bytes of sm2 and sm3, and the "Basic sanity" tests on them
LoadJson ==
    /\ variant = "entries" /\ tool = "cfgdiag" /\ pc = "load_json"
    /\ \E max \in {DefaultMaxBytes, 300}, s2 \in SizeInputs, s3 \in SizeInputs :
        /\ diag' = [diag EXCEPT !.sm2 = s2, !.sm3 = s3]
        /\ IF s2 <= 0 \/ s3 <= 0 \/ s2 > max \/ s3 > max
           THEN Fail("load_json")
           ELSE pc' = "configure" /\ err' = err
    /\ UNCHANGED <<variant, dev, mainVars, rd, reqState, pending, sinceIssue,
                   caller, discVars, log, lastDec, codecVars, xchgVars,
                   tailVars, tool, dom, vals>>

\* configure_slave: sm2_entries[i] = { entry_index, (uint8_t)(i + 1), 8 } for
\* i < size_bytes, the same for sm3, and one PDO for each
ConfigureSlave ==
    /\ variant = "entries" /\ pc = "configure"
    /\ infos' = << [index |-> RxPdoBase, n_entries |-> diag.sm2,
                    entries |-> StaticEntries(28672, diag.sm2)],
                   [index |-> TxPdoBase, n_entries |-> diag.sm3,
                    entries |-> StaticEntries(24576, diag.sm3)] >>
    /\ pc' = "configured"
    /\ UNCHANGED <<variant, dev, err, mainVars, rd, reqState, pending,
                   sinceIssue, caller, discVars, log, lastDec, codecVars,
                   xchgVars, al_state, calls, syncs, regs, offs, nentries,
                   viewVars, v3Vars, toolVars>>

\* main of ecat_dump_raw: sm2e[i] = { 0x7000, (uint8_t)(i+1), 8 } for
\* i < SM2_BYTES and sm3e[i] = { 0x6000, (uint8_t)(i+1), 8 } for i < scan_bytes
DumpRawEntries ==
    /\ variant = "entries" /\ tool = "dump_raw" /\ pc = "dump_entries"
    /\ infos' = << [index |-> RxPdoBase, n_entries |-> SM2_BYTES,
                    entries |-> StaticEntries(28672, SM2_BYTES)],
                   [index |-> TxPdoBase, n_entries |-> MAX_SM3_SCAN,
                    entries |-> StaticEntries(24576, MAX_SM3_SCAN)] >>
    /\ pc' = "configured"
    /\ UNCHANGED <<variant, dev, err, mainVars, rd, reqState, pending,
                   sinceIssue, caller, discVars, log, lastDec, codecVars,
                   xchgVars, al_state, calls, syncs, regs, offs, nentries,
                   viewVars, v3Vars, toolVars>>

InitEntries ==
    /\ variant = "entries"
    /\ dev = [rxc |-> 1, txc |-> 1, m |-> 1]
    /\ err = "none" /\ loop_i = 0 /\ sawPreop = FALSE
    /\ rd = NoRead /\ reqState = "none" /\ pending = 0 /\ sinceIssue = 0
    /\ dir = "rx" /\ caller = "none" /\ cnt = 0 /\ ai = 0 /\ k = 0
    /\ rx_i = [n \in 0..(MaxAssign - 1) |-> -1]
    /\ tx_i = [n \in 0..(MaxAssign - 1) |-> -1]
    /\ rx_n = 0 /\ tx_n = 0 /\ rx = <<>> /\ tx = <<>>
    /\ log = <<>> /\ lastDec = NoDec
    /\ triple = NoTriple /\ raw = <<>> /\ decoded = NoTriple
    /\ al_state = "init" /\ calls = <<>>
    /\ infos = <<>> /\ syncs = <<>> /\ regs = <<>> /\ offs = <<>> /\ nentries = 0
    /\ pd = FALSE /\ sm3_base = 0 /\ cycles = 0 /\ lastField = NoField
    /\ wait_op_ms = 0 /\ elapsed = 0 /\ opRc = 1 /\ fl = <<>>
    /\ dom = <<>> /\ vals = <<>> /\ diag = NoDiag
    /\ xchg = <<>> /\ op_iters = 0
    /\ \/ tool = "cfgdiag" /\ pc = "load_json"
       \/ tool = "dump_raw" /\ pc = "dump_entries"

NextEntries == LoadJson \/ ConfigureSlave \/ DumpRawEntries

SpecEntries == InitEntries /\ [][NextEntries]_vars

----------------------------------------------------------------------------
(* The decoders on their own: a synthetic mapping word is packed and taken *)
(* through the strict path; raw answers of every length are taken through  *)
(* each decoder.                                                           *)

IndexVals == {0, 1, 255, 256, 24592, 32767, 32768, 65535}
ByteVals == {0, 1, 3, 8, 127, 128, 255}
Triples == [index : IndexVals, subindex : ByteVals, bits : ByteVals]

RawBytes == {0, 1, 128, 255}
RawAnswers ==
    UNION {[1..len -> RawBytes] : len \in 0..4}
    \cup {[n \in 1..8 |-> IF n <= 4 THEN b[n] ELSE f] :
            b \in [1..4 -> RawBytes], f \in Fillers}

InitCodec ==
    /\ variant = "codec"
    /\ dev \in {d \in Devices : d.rxc = 1 /\ d.txc = 1 /\ d.m = 1}
    /\ err = "none" /\ loop_i = 0 /\ sawPreop = FALSE
    /\ rd = NoRead /\ reqState = "none" /\ pending = 0 /\ sinceIssue = 0
    /\ dir = "rx" /\ caller = "none" /\ cnt = 0 /\ ai = 0 /\ k = 0
    /\ rx_i = [n \in 0..(MaxAssign - 1) |-> -1]
    /\ tx_i = [n \in 0..(MaxAssign - 1) |-> -1]
    /\ rx_n = 0 /\ tx_n = 0 /\ rx = <<>> /\ tx = <<>>
    /\ log = <<>> /\ lastDec = NoDec /\ decoded = NoTriple
    /\ InitTail /\ wait_op_ms = 0 /\ fl = <<>>
    /\ \/ pc = "encode" /\ triple \in Triples /\ raw = <<>>
       \/ pc = "answer" /\ triple = NoTriple /\ raw \in RawAnswers

pipeVars == <<variant, dev, err, mainVars, rd, reqState, pending, sinceIssue,
              caller, discVars, log, tailVars, toolVars, xchgVars>>

\* the device side: the mapping word of the triple, as the bytes it sends
CodecEncode ==
    /\ variant = "codec" /\ pc = "encode"
    /\ raw' = PackWord(triple)
    /\ pc' = "strict"
    /\ UNCHANGED <<pipeVars, lastDec, triple, decoded>>

\* sdo_u32_exact on the answer, then the split of read_pdo_map
CodecStrict ==
    /\ variant = "codec" /\ pc = "strict"
    /\ LET r == sdo_u32_exact([fail |-> FALSE, bytes |-> raw]) IN
        /\ lastDec' = [size |-> 4, fail |-> FALSE, bytes |-> raw, rc |-> r.rc,
                       v |-> r.v]
        /\ decoded' = IF r.rc = 0 THEN SplitWord(r.v) ELSE NoTriple
    /\ pc' = "done_strict"
    /\ UNCHANGED <<pipeVars, triple, raw>>

\* sdo_u8_any / sdo_u16_any / sdo_u32_exact on a raw answer
CodecDecode ==
    /\ variant = "codec" /\ pc = "answer"
    /\ \E size \in {1, 2, 4} :
        LET r == Decode(size, [fail |-> FALSE, bytes |-> raw]) IN
        lastDec' = [size |-> size, fail |-> FALSE, bytes |-> raw, rc |-> r.rc,
                    v |-> r.v]
    /\ pc' = "done_decode"
    /\ UNCHANGED <<pipeVars, triple, raw, decoded>>

NextCodec == CodecEncode \/ CodecStrict \/ CodecDecode

SpecCodec == InitCodec /\ [][NextCodec]_vars

----------------------------------------------------------------------------
(* Properties                                                              *)

Min(a, b) == IF a < b THEN a ELSE b

\* the 32-bit word whose split is the entry e
WordOf(e) == [lo |-> e.index, hi |-> e.subindex + 256 * e.bits]

\* the value stored in the dictionary at (idx, sub)
PayloadOf(d, idx, sub) ==
    IF sub = 0 THEN DevCount(d, idx)
    ELSE IF IsAssign(idx) THEN DevPdoAt(idx, sub)
    ELSE WordOf(DevMapEntry(idx, sub))

\* C1: a request-based mailbox read polls the request's status at most 200
\* times; it returns success, with the payload, exactly when a poll observed
\* the success status, and otherwise (the request having been created) it
\* returns the error after the 200th poll; every unsuccessful poll is
\* followed by one sleep.
C1_PollBudget ==
    UsesRequests(variant) =>
        /\ rd.polls <= PollBudget
        /\ rd.res \in {"none", "ok", "timeout", "rejected"}
        /\ (pc = "rd_ret" /\ rd.created) => (rd.res = "ok" <=> rd.saw)
        /\ rd.res = "ok" =>
              /\ rd.saw /\ rd.created
              /\ rd.val = PayloadOf(dev, rd.idx, rd.sub)
              /\ rd.sleeps = rd.polls - 1
        /\ rd.res = "timeout" =>
              /\ ~rd.saw /\ rd.created
              /\ rd.polls = PollBudget /\ rd.sleeps = PollBudget
        /\ rd.res = "rejected" => ~rd.created /\ rd.polls = 0
        /\ pc = "rd_poll" => ~rd.saw /\ rd.sleeps = rd.polls /\ rd.polls < PollBudget

\* C1 witness: a read whose request stayed unanswered through all 200 polls
C1_Witness ==
    variant = "req" /\ pc = "rd_ret" /\ rd.res = "timeout" /\ rd.polls = PollBudget

\* C2: at most one mailbox request is outstanding at any time, also after a
\* read timed out with its request still pending.
C2_OneOutstanding == pending <= 1

\* C2 witness: a read timed out, its request is still pending, and the
\* pipeline has ended without issuing another one
C2_Witness ==
    variant = "req" /\ pc = "failed" /\ rd.res = "timeout" /\ reqState = "busy"
    /\ pending = 1

\* C3: between issuing a read and each completion poll at least one exchange
\* cycle is performed.
C3_PollsArePumped ==
    (UsesRequests(variant) /\ rd.created /\ rd.polls >= 1) => sinceIssue >= 1

\* the reads of object idx issued so far, in order
ReadsOf(idx) == SelectSeq(log, LAMBDA e : e[1] = idx)

AssignClampedFor(idx, c, buf, n) ==
    n >= 1 =>
        /\ n = Min(c, MaxAssign)
        /\ Len(ReadsOf(idx)) = n + 1
        /\ \A i \in 1..(n + 1) : ReadsOf(idx)[i][2] = i - 1
        /\ \A i \in 0..(n - 1) : buf[i] = DevPdoAt(idx, i + 1)

\* C4: for a reported count c >= 1 read_assign_list returns min(c, 16) PDO
\* indices, having read subindex 0 and then exactly the subindices
\* 1..min(c, 16), ascending, each once; the clamp raises no error: the
\* function fails only when a mailbox read fails.
C4_AssignClamped ==
    /\ AssignClampedFor(RxAssignIdx, dev.rxc, rx_i, rx_n)
    /\ AssignClampedFor(TxAssignIdx, dev.txc, tx_i, tx_n)
    /\ err \in {"assign_count", "assign_item"} => rd.res # "ok"

\* C4 witness: the device reported the malformed count and 16 were returned
C4_Witness ==
    dev.rxc = BigCount /\ rx_n = MaxAssign /\ pc = "rd_issue" /\ rd.idx = TxAssignIdx

\* C5: read_assign_list never returns success with an empty PDO list.
C5_AssignNeverEmpty == pc = "alloc_lists" => (rx_n >= 1 /\ tx_n >= 1)

\* C6: read_mapping never returns success with a PDO that has zero entries.
C6_MappingNeverEmpty ==
    (pc = "map_loop" /\ k >= 1) =>
        (IF dir = "rx" THEN rx ELSE tx)[k].entry_count >= 1

\* C7: a triple packed into a mapping word and decoded through the strict
\* 4-byte path and the split of read_mapping comes back unchanged.
C7_RoundTrip ==
    pc = "done_strict" => (lastDec.rc = 0 /\ decoded = triple)

\* C7 witness: the spec's example (0x6010, 3, 8) went through encode and decode
C7_Witness ==
    pc = "done_strict" /\ triple = [index |-> 24592, subindex |-> 3, bits |-> 8]

\* C8: the strict 32-bit decode succeeds only on an answer of exactly 4
\* bytes; on any other length it fails and produces no value, and the
\* enclosing read_mapping fails.
C8_StrictExact ==
    (variant = "upl" /\ lastDec.size = 4) =>
        /\ lastDec.rc = 0 => (Len(lastDec.bytes) = 4 /\ ~lastDec.fail)
        /\ Len(lastDec.bytes) # 4 =>
              /\ lastDec.rc # 0 /\ lastDec.v = 0 /\ rd.res = "fail"
              /\ pc \in {"rd_ret", "failed"}
              /\ pc = "failed" => err = "map_item"
              /\ (IF dir = "rx" THEN rx ELSE tx)[k + 1].entries[ai + 1] = ZeroEntry

\* C8 witness: a mapping word answered with 2 bytes made read_pdo_map fail
C8_Witness ==
    variant = "upl" /\ pc = "failed" /\ err = "map_item" /\ lastDec.size = 4
    /\ ~lastDec.fail /\ Len(lastDec.bytes) = 2

AssignLog(idx, c, buf, n) ==
    <<<<idx, 0, c>>>> \o [i \in 1..n |-> <<idx, i, buf[i - 1]>>]

PdoLog(p) ==
    <<<<p.pdo_index, 0, p.entry_count>>>>
        \o [j \in 1..p.entry_count |-> <<p.pdo_index, j, WordOf(p.entries[j])>>]

RECURSIVE MapLogs(_)
MapLogs(list) ==
    IF list = <<>> THEN <<>> ELSE PdoLog(Head(list)) \o MapLogs(Tail(list))

\* C10: discovery reads 0x1C12, then 0x1C13, then the mapping of every
\* output PDO and then of every input PDO, in assignment order; the i-th PDO
\* of a list is the index read at assignment subindex i and its j-th entry
\* the word read at mapping subindex j.
C10_DiscoveryOrder ==
    pc = "built" =>
        /\ Len(rx) = rx_n /\ Len(tx) = tx_n
        /\ \A i \in 1..rx_n : rx[i].pdo_index = rx_i[i - 1]
                              /\ Len(rx[i].entries) = rx[i].entry_count
        /\ \A i \in 1..tx_n : tx[i].pdo_index = tx_i[i - 1]
                              /\ Len(tx[i].entries) = tx[i].entry_count
        /\ log = AssignLog(RxAssignIdx, dev.rxc, rx_i, rx_n)
                 \o AssignLog(TxAssignIdx, dev.txc, tx_i, tx_n)
                 \o MapLogs(rx) \o MapLogs(tx)

\* C10 witness: both lists hold two PDOs, with several entries each
C10_Witness ==
    pc = "built" /\ rx_n >= 2 /\ tx_n >= 2 /\ rx[2].entry_count >= 2
    /\ tx[1].entry_count >= 2

----------------------------------------------------------------------------
(* Properties of the layout                                                *)

\* the programs that discover the layout
Discovers(v) == v \in {"req", "req1", "upl"}

\* the PDO the dictionary describes under mapping object idx
ExpectedPdo(idx) ==
    [index     |-> idx,
     n_entries |-> DevMapCount(dev, idx),
     entries   |-> [s \in 1..DevMapCount(dev, idx) |->
                      [index      |-> DevMapEntry(idx, s).index,
                       subindex   |-> DevMapEntry(idx, s).subindex,
                       bit_length |-> DevMapEntry(idx, s).bits]]]

\* the mapping entries of the PDOs buf[0] .. buf[n-1], in discovery order
RECURSIVE ExpectedEntries(_, _)
ExpectedEntries(buf, n) ==
    IF n = 0 THEN <<>>
    ELSE ExpectedEntries(buf, n - 1) \o ExpectedPdo(buf[n - 1]).entries

SameObject(r, e) == r.index = e.index /\ r.subindex = e.subindex

\* the registration list has been built
RegsBuilt == Discovers(variant) /\ regs # <<>>

\* C11: the registration list is flat and keeps the discovery order, with
\* every output entry before every input entry: entry k, for k below the
\* number of output entries, is the k-th output mapping entry, and entry
\* (number of output entries) + m is the m-th input mapping entry.
C11_RegsOutputThenInput ==
    RegsBuilt =>
        LET out == ExpectedEntries(rx_i, rx_n)
            inp == ExpectedEntries(tx_i, tx_n) IN
        /\ Len(regs) >= Len(out) + Len(inp)
        /\ \A n \in 1..Len(out) : SameObject(regs[n], out[n])
        /\ \A m \in 1..Len(inp) : SameObject(regs[Len(out) + m], inp[m])

C11_Witness ==
    /\ RegsBuilt /\ rx_n = 2 /\ tx_n = 2
    /\ Len(ExpectedEntries(rx_i, rx_n)) >= 3
    /\ Len(ExpectedEntries(tx_i, tx_n)) >= 3
    /\ regs[1].index # regs[Len(ExpectedEntries(rx_i, rx_n)) + 1].index

\* the sum of entry_count over the PDOs of a discovered list
RECURSIVE SumOfCounts(_, _)
SumOfCounts(list, n) ==
    IF n = 0 THEN 0 ELSE SumOfCounts(list, n - 1) + list[n].entry_count

\* the objects mapped for output are 0x7000 and up, those for input below
IsOutputObject(r) == r.index >= 28672
IsInputObject(r) == r.index > 0 /\ r.index < 28672

\* C12: for each direction the number of registration entries equals the
\* sum of entry_count over the discovered PDOs of that direction, and the
\* terminator stands at the index equal to the total of both directions.
C12_RegsCount ==
    RegsBuilt =>
        LET nOut == SumOfCounts(rx, rx_n)
            nIn == SumOfCounts(tx, tx_n) IN
        /\ Cardinality({n \in 1..Len(regs) : IsOutputObject(regs[n])}) = nOut
        /\ Cardinality({n \in 1..Len(regs) : IsInputObject(regs[n])}) = nIn
        /\ nentries = nOut + nIn
        /\ Len(regs) = nOut + nIn + 1
        /\ regs[nOut + nIn + 1] = ZeroReg
        /\ \A n \in 1..(nOut + nIn) : regs[n].index # 0

C12_Witness ==
    /\ RegsBuilt /\ rx_n = 2 /\ tx_n = 1
    /\ SumOfCounts(rx, rx_n) = 5 /\ SumOfCounts(tx, tx_n) = 3
    /\ regs[9] = ZeroReg

\* the sync-manager descriptors have been built
SyncsBuilt == Discovers(variant) /\ syncs # <<>>

\* the PDOs a descriptor carries are those of buf[0] .. buf[n-1], in order
CarriesExactly(sy, buf, n) ==
    /\ sy.n_pdos = n
    /\ Len(sy.pdos) = n
    /\ \A i \in 1..n : sy.pdos[i] = ExpectedPdo(buf[i - 1])

\* C13: the sync-manager descriptor sequence has exactly five elements:
\* manager 0 (output) and manager 1 (input) with no PDOs, manager 2 (output)
\* with all and only the discovered output PDOs in order, manager 3 (input)
\* with all and only the discovered input PDOs in order, then the sentinel.
C13_FiveSyncs ==
    SyncsBuilt =>
        /\ Len(syncs) = 5
        /\ syncs[1].index = 0 /\ syncs[1].dir = "output" /\ syncs[1].n_pdos = 0
        /\ syncs[2].index = 1 /\ syncs[2].dir = "input" /\ syncs[2].n_pdos = 0
        /\ syncs[3].index = 2 /\ syncs[3].dir = "output"
        /\ CarriesExactly(syncs[3], rx_i, rx_n)
        /\ syncs[4].index = 3 /\ syncs[4].dir = "input"
        /\ CarriesExactly(syncs[4], tx_i, tx_n)
        /\ syncs[5].index = 255 /\ syncs[5].n_pdos = 0

C13_Witness ==
    /\ SyncsBuilt /\ pc = "config_pdos" /\ rx_n = 2 /\ tx_n = 2
    /\ syncs[3].pdos[2].n_entries >= 1
    /\ syncs[4].pdos[1] # syncs[3].pdos[1]

----------------------------------------------------------------------------
(* Properties of the bring-up                                              *)

\* the runtime accepted / refused the call c
Accepted(c) == \E n \in 1..Len(calls) : calls[n] = <<c, TRUE>>
Refused(c) == \E n \in 1..Len(calls) : calls[n] = <<c, FALSE>>

\* the warm-up window has run to its end
WarmedUp == loop_i = WarmupCycles

\* C14: no dictionary read is issued before the slave was observed in the
\* pre-operational state: the discovery starts only after that state was
\* polled and the warm-up window has run.
C14_ReadsOnlyAfterPreop ==
    (Discovers(variant) /\ (pc = "build" \/ rd.created \/ log # <<>>))
        => (sawPreop /\ WarmedUp)

\* C15: the wait for the pre-operational state always ends, by the state
\* being reported or by a bounded timeout, even when the slave never
\* reaches it.
C15_WaitTerminates == (pc = "wait_preop") ~> (pc # "wait_preop")

\* the errors build_pdo_lists returns with
DiscoveryErrors ==
    {"assign_count", "empty_assign", "assign_item", "calloc", "map_count",
     "empty_map", "map_item"}

\* nothing of the layout has reached the runtime and nothing was read from
\* the process image
NothingSubmitted ==
    /\ ~Accepted("config_pdos") /\ ~Refused("config_pdos")
    /\ ~Accepted("reg_list") /\ ~Refused("reg_list")
    /\ syncs = <<>> /\ regs = <<>>
    /\ ~pd /\ cycles = 0 /\ lastField = NoField

\* C16: a discovery error is fatal: once build_pdo_lists has failed (a read
\* timed out or failed, a count was empty where the program checks it, an
\* answer did not decode), no sync-manager descriptors and no registration
\* list are submitted and the cyclic loop is not entered; so for a timeout,
\* after 200 polls, on subindex 0 of a mapping object.
C16_DiscoveryErrorFatal ==
    Discovers(variant) =>
        /\ err \in DiscoveryErrors => (pc = "failed" /\ NothingSubmitted)
        /\ (rd.res \notin {"none", "ok"} /\ pc # "rd_ret")
            => (pc = "failed" /\ err \in DiscoveryErrors /\ NothingSubmitted)

C16_Witness ==
    /\ variant = "req" /\ pc = "failed" /\ err = "map_count"
    /\ rd.sub = 0 /\ rd.idx = RxPdoBase
    /\ rd.res = "timeout" /\ rd.polls = PollBudget
    /\ NothingSubmitted

\* the position of statement p in main
StepIndex(v, p) == CHOOSE n \in 1..Len(MainSteps(v)) : MainSteps(v)[n] = p

\* main is past the registration: the layout is registered
Registered ==
    /\ pc \in {MainSteps(variant)[n] : n \in 1..Len(MainSteps(variant))}
    /\ StepIndex(variant, pc) > StepIndex(variant, "reg_list")

\* C17: a refusal by the runtime of the sync-manager descriptors or of the
\* registration list is fatal: the layout is registered only if both were
\* accepted, and after a refusal the process image is neither obtained nor
\* read.
C17_RefusalFatal ==
    /\ (Registered \/ pd \/ cycles > 0)
        => (Accepted("config_pdos") /\ Accepted("reg_list"))
    /\ (Refused("config_pdos") \/ Refused("reg_list"))
        => (pc = "failed" /\ ~pd /\ cycles = 0 /\ lastField = NoField)

C17_Witness ==
    /\ Accepted("config_pdos") /\ Refused("reg_list")
    /\ pc = "failed" /\ ~pd /\ cycles = 0

\* C18: the cyclic exchange is activated only after the registration: the
\* activation call comes after the sync-manager descriptors and the
\* registration list were accepted, never before.
C18_ActivateAfterRegistration ==
    \A n \in 1..Len(calls) :
        calls[n][1] = "activate" =>
            /\ \E i \in 1..(n - 1) : calls[i] = <<"config_pdos", TRUE>>
            /\ \E j \in 1..(n - 1) : calls[j] = <<"reg_list", TRUE>>

\* C19: not reaching OP is a soft warning: when wait_for_op times out the
\* viewer is not failed; it goes on to resolve the fields and enters the
\* cyclic loop.
C19_OpTimeoutSoft ==
    /\ [](opRc = -1 => (pc \in {"op_result", "map_fields", "cyclic"} /\ err = "none"))
    /\ [][(pc = "op_result" /\ opRc = -1) => pc' = "map_fields"]_vars
    /\ [][(pc = "map_fields" /\ opRc = -1) => (pc' = "cyclic" /\ fl' # <<>>)]_vars

C19_Witness ==
    /\ variant = "v3" /\ opRc = -1 /\ al_state # "op" /\ elapsed >= DefaultWaitOpMs
    /\ pc = "cyclic" /\ cycles >= 1 /\ lastField.valid = 1

\* C20: input_base is the offset of the registration entry at index
\* (number of output entries), and byte k of a field at logical offset L
\* resolves to the offset of the registration entry at index
\* (number of output entries) + L + k.
C20_ResolverPerEntry ==
    /\ (variant = "v3" /\ pc = "cyclic" /\ fl[1].valid = 1)
        => \A b \in 0..(fl[1].type - 1) :
             fl[1].dom_off[b] = offs[SM2_BYTES + fl[1].logical_offset + b + 1]
    /\ (Discovers(variant) /\ pc = "cyclic" /\ SumOfCounts(tx, tx_n) >= 1)
        => LET nOut == SumOfCounts(rx, rx_n)
               nIn == SumOfCounts(tx, tx_n) IN
           /\ sm3_base = offs[nOut + 1]
           /\ (lastField.type > 0 /\ lastField.offset + lastField.type <= nIn)
                => \A b \in 0..(lastField.type - 1) :
                     lastField.bytes[b + 1] = offs[nOut + lastField.offset + b + 1]

\* the registered output entries and input entries of the viewer at hand
OutputEntries == IF tool = "v6" THEN TotalEntries(rx) ELSE SM2_BYTES
InputEntries == nentries - OutputEntries

FieldOffset(f) == IF tool = "v6" THEN f.offset ELSE f.logical_offset

\* the field lies within the input entries
InBounds(f) == FieldOffset(f) >= 0 /\ FieldOffset(f) + f.type <= InputEntries

FieldsResolved == variant = "fields" /\ pc \in {"cyclic", "viewed", "read"}

\* C21: a field is treated as valid exactly if its logical offset is not
\* negative and offset + width does not exceed the number of input entries;
\* for any other field nothing is read from the image.
C21_ValidIffInBounds ==
    FieldsResolved =>
        \A n \in 1..Len(fl) :
            /\ Usable(tool, fl[n]) <=> InBounds(fl[n])
            /\ (pc = "viewed" /\ ~InBounds(fl[n])) => vals[n].bytes = <<>>

\* every image byte the resolved field is made of is zero
ReadsZeros(f) == \A n \in 1..f.type : DomAt(dom, f.dom_off[n - 1], 1) = 0

\* C22: what read_field_value returns for an invalid field differs from what
\* it returns for a valid field whose image bytes are all zero.
C22_InvalidDistinctFromZero ==
    (variant = "fields" /\ pc = "read") =>
        \A a, b \in 1..Len(fl) :
            (fl[a].valid = 0 /\ fl[b].valid = 1 /\ ReadsZeros(fl[b]))
                => vals[a].v # vals[b].v

\* the image byte at the resolved offset of input entry number e
InputByte(e) == dom[offs[OutputEntries + e + 1] + 1]

\* the little-endian value of the input entries L, L+1, ... of the field
ExpectedValue(f) ==
    LET b(n) == IF n < f.type THEN InputByte(FieldOffset(f) + n) ELSE 0 IN
    U32(b(0), b(1), b(2), b(3))

\* C23: the value shown for a valid field of width w is the little-endian
\* value of the image bytes at the offsets resolved one by one for its w
\* bytes, not of w bytes in a row from the first offset.
C23_LittleEndianPerByte ==
    (variant = "fields" /\ pc = "viewed") =>
        \A n \in 1..Len(fl) :
            (InBounds(fl[n]) /\ vals[n].shown) => vals[n].v = ExpectedValue(fl[n])

\* the list as it was loaded, and a list without its j-th field
Reloaded(arr) ==
    [n \in 1..Len(arr) |-> LoadedField(arr[n].logical_offset, arr[n].type)]
Without(arr, j) ==
    [n \in 1..(Len(arr) - 1) |-> IF n < j THEN arr[n] ELSE arr[n + 1]]

OutOfBounds(f) == f.logical_offset < 0 \/ f.logical_offset + f.type > SM3_BYTES

\* C24: a bounds failure is local to its field: map_fields_to_domain goes
\* through the whole list, the fields out of bounds are the only invalid
\* ones and keep the sentinel in every dom_off, and every other field is
\* resolved as it is in the list without the failing field.
C24_BoundsFailureLocal ==
    (FieldsResolved /\ tool = "v2") =>
        \A j \in 1..Len(fl) :
            /\ fl[j].valid = 0 <=> OutOfBounds(fl[j])
            /\ fl[j].valid = 1 =>
                 \A n \in 0..(fl[j].type - 1) :
                    fl[j].dom_off[n] = offs[SM2_BYTES + fl[j].logical_offset + n + 1]
            /\ OutOfBounds(fl[j]) =>
                 /\ \A n \in 0..3 : fl[j].dom_off[n] = -1
                 /\ Without(fl, j) = MapFieldsFrom(Without(Reloaded(fl), j), 1, offs)

C24_Witness ==
    /\ variant = "fields" /\ tool = "v2" /\ pc = "cyclic" /\ Len(fl) = 2
    /\ OutOfBounds(fl[1]) /\ fl[1].valid = 0
    /\ ~OutOfBounds(fl[2]) /\ fl[2].valid = 1 /\ fl[2].type = 4

\* the validations of ecat_cfgdiag have run
Validated == variant = "diag" /\ diag.validated

\* entry i at byte i, bit 0
Packed(infos_) ==
    \A i \in 1..Len(infos_) : infos_[i].byte = i - 1 /\ infos_[i].bit = 0

Reported(msg) == \E n \in 1..Len(diag.msgs) : diag.msgs[n] = msg

\* C25: for a layout registered outputs first whose 8-bit entries are packed
\* (entry i at byte i, bit 0, image size equal to the number of entries) the
\* validator reports no violation.
C25_PackedLayoutPasses ==
    Validated =>
        ((Packed(diag.infos) /\ diag.size = Len(diag.infos))
            => (diag.failures = 0 /\ diag.msgs = <<>>
                /\ (pc = "diag_done" => diag.rc = 0)))

C25_Witness ==
    /\ Validated /\ pc = "diag_done" /\ diag.sm2 = 1 /\ diag.sm3 = 2
    /\ Packed(diag.infos) /\ diag.size = 3 /\ diag.failures = 0 /\ diag.rc = 0

\* C27: the validator reports a violation for every entry i > 0 whose byte
\* offset is neither the previous entry's nor that plus one, and for every
\* entry whose bit offset is not 0.
C27_ReportsEveryJump ==
    Validated =>
        /\ \A i \in 1..(Len(diag.infos) - 1) :
              ~(\/ diag.infos[i + 1].byte = diag.infos[i].byte
                \/ diag.infos[i + 1].byte = diag.infos[i].byte + 1)
                 => Reported(<<"jump", i>>)
        /\ \A i \in 0..(Len(diag.infos) - 1) :
              diag.infos[i + 1].bit # 0 => Reported(<<"bit", i>>)

\* C28: a first entry not at byte 0 is reported, an image size that differs
\* from the number of registered entries is reported, and the validation
\* returns failure exactly if it counted a violation.
C28_FirstAndSize ==
    Validated =>
        /\ (Len(diag.infos) > 0 /\ diag.infos[1].byte # 0) => Reported(<<"first", 0>>)
        /\ diag.size # Len(diag.infos) => Reported(<<"size", diag.size>>)
        /\ diag.failures = Len(diag.msgs)
        /\ pc = "diag_done" => (diag.rc = -1 <=> diag.failures # 0)

C28_Witness ==
    /\ Validated /\ pc = "diag_done" /\ Len(diag.infos) = 2
    /\ diag.infos[1].byte = 1 /\ diag.size = 3
    /\ Reported(<<"first", 0>>) /\ Reported(<<"size", 3>>) /\ diag.rc = -1

\* C29: a layout the validator passes is packed: entry i at byte i, bit 0.
C29_ValidatorSound ==
    (Validated /\ diag.failures = 0) => Packed(diag.infos)

\* what the dictionary of the device holds under mapping object p, and the
\* list it holds under assignment object idx
DictPdo(p) ==
    [pdo_index |-> p, entry_count |-> DevMapCount(dev, p),
     entries |-> [j \in 1..DevMapCount(dev, p) |-> DevMapEntry(p, j)]]
DictList(idx) ==
    [i \in 1..Min(DevCount(dev, idx), MaxAssign) |-> DictPdo(DevPdoAt(idx, i))]

\* the layout that follows from the dictionary alone
DictSyncs ==
    build_syncs(DictList(RxAssignIdx), DictList(TxAssignIdx),
                build_info(DictList(RxAssignIdx), DictList(TxAssignIdx)))
DictRegs == build_entry_regs(DictList(RxAssignIdx), DictList(TxAssignIdx))

\* C26: discovery is deterministic: whatever the timing of the answers, a
\* discovery that completes yields the PDO lists, the entry orderings and the
\* registration list that the dictionary of the slave determines, and so the
\* offsets a deterministic runtime derives from them: two runs against an
\* unchanged slave end with the same lists, registration list and offsets.
C26_DiscoveryDeterministic ==
    Discovers(variant) =>
        /\ (pc = "built" \/ syncs # <<>>) =>
              /\ rx = DictList(RxAssignIdx) /\ tx = DictList(TxAssignIdx)
              /\ rx_n = Len(rx) /\ tx_n = Len(tx)
        /\ syncs # <<>> => syncs = DictSyncs
        /\ regs # <<>> => (regs = DictRegs.regs /\ nentries = DictRegs.total)
        /\ Accepted("reg_list") =>
              offs = RuntimeOffsets(DictSyncs, RegEntries(DictRegs.regs))

\* C26 witness: two output and two input PDOs were found and the layout
\* was registered
C26_Witness ==
    /\ variant = "req" /\ Accepted("reg_list")
    /\ Len(rx) = NumPdoObjects /\ Len(tx) = NumPdoObjects
    /\ DictRegs.total >= 3 /\ Len(offs) >= DictRegs.total

MaxPolls(t) ==
    IF t <= 0 THEN 0
    ELSE t \div WaitOpStep + (IF t % WaitOpStep = 0 THEN 0 ELSE 1)

\* C31: wait_for_op terminates: with the timeout T it makes at most ceil(T/10)
\* iterations; it returns 0 exactly when an iteration has seen the slave in
\* OP, and -1 otherwise, once elapsed >= T; with T <= 0 it returns -1 without
\* any exchange.
C31_WaitOpBounded ==
    variant = "v3" =>
        /\ op_iters <= MaxPolls(wait_op_ms)
        /\ pc = "wait_op" => opRc = 1
        /\ opRc = 0 => (al_state = "op" /\ op_iters >= 1)
        /\ opRc = -1 => elapsed >= wait_op_ms
        /\ pc = "op_result" =>
              /\ opRc \in {0, -1}
              /\ opRc = 0 <=> xchg = WaitOpCycle(TRUE)
              /\ wait_op_ms <= 0 => (opRc = -1 /\ op_iters = 0 /\ xchg = <<>>)

\* the runtime calls of a cycle, without the mark of the reads
RuntimeCallsOf(c) == SelectSeq(c, LAMBDA x : x # "read")

\* C32: every exchange cycle of the pipeline, in the bring-up loops and in
\* the cyclic loop, makes the four calls receive, process domain, queue
\* domain, send in this order and leaves none out; the fields are read
\* between the process and the queue of the same cycle.
C32_FourStepCycle ==
    xchg # <<>> =>
        /\ RuntimeCallsOf(xchg) = <<"receive", "process", "queue", "send">>
        /\ \A n \in 2..(Len(xchg) - 1) :
              xchg[n] = "read" => (xchg[n - 1] = "process" /\ xchg[n + 1] = "queue")
        /\ xchg[1] # "read" /\ xchg[Len(xchg)] # "read"

\* C33: Failed is absorbing: once the pipeline has failed (a handle was
\* refused, the discovery met an error, the layout was rejected, the
\* activation failed) it makes no further step: no runtime call, no mailbox
\* read, no submission, no exchange cycle; it has not obtained the process
\* image and never reads a field.
C33_FailedAbsorbing ==
    /\ [](/\ pc = "failed" <=> err # "none"
          /\ pc = "failed" => (~pd /\ cycles = 0 /\ lastField = NoField))
    /\ [][/\ pc # "failed"
          /\ pc' = "failed" =>
                /\ log' = log /\ xchg' = xchg /\ pending' = pending
                /\ \/ calls' = calls
                   \/ \E c \in {"request_master", "create_domain", "slave_config",
                                 "activate", "config_pdos", "reg_list",
                                 "domain_data"} :
                        calls' = Append(calls, <<c, FALSE>>)]_vars

\* C33 witness: part_001 failed at the activation, the last call of its
\* bring-up, with the layout discovered and registered
C33_Witness ==
    /\ variant = "req1" /\ pc = "failed" /\ err = "activate"
    /\ Accepted("reg_list") /\ Refused("activate") /\ log # <<>>

\* the positions in calls of the accepted calls c
AcceptedAt(c) == {n \in 1..Len(calls) : calls[n] = <<c, TRUE>>}

\* C34: the pointer to the process image is obtained only after the
\* registration list was accepted and the cyclic exchange was activated, and
\* no activation or registration call follows it: every field read goes
\* through a pointer obtained for the activation in force.
C34_PointerAfterActivation ==
    /\ pd <=> AcceptedAt("domain_data") # {}
    /\ \A n \in AcceptedAt("domain_data") :
          /\ \E i \in AcceptedAt("reg_list") : i < n
          /\ \E j \in AcceptedAt("activate") : j < n
          /\ \A m \in (n + 1)..Len(calls) :
                calls[m][1] \notin {"activate", "reg_list", "domain_data"}
    /\ (cycles > 0 \/ lastField # NoField) => pd

\* C34 witness: part_001, which activates last, reads a 32-bit field in its
\* second pass through the image pointer
C34_Witness ==
    /\ variant = "req1" /\ pd /\ cycles = MaxCycles /\ lastField.type = 4
    /\ calls[Len(calls)] = <<"domain_data", TRUE>>

\* C35: the request-based read treats the pending and the failed status of
\* its request alike: it returns success only from a poll that returned the
\* success status, and a request that reports failed is polled on until the
\* 200 polls are spent, and only then is the error returned.
C35_FailedPolledOn ==
    (UsesRequests(variant) /\ rd.created) =>
        /\ rd.res = "ok" => (reqState = "success" /\ rd.saw)
        /\ rd.res = "timeout" =>
              (reqState \in {"busy", "error"} /\ rd.polls = PollBudget)
        /\ reqState = "error" =>
              \/ pc = "rd_poll" /\ rd.res = "none" /\ rd.polls < PollBudget
              \/ rd.res = "timeout" /\ rd.polls = PollBudget
        /\ pc = "rd_poll" => (rd.res = "none" /\ reqState \in {"busy", "error"})

\* C35 witness: the request reported failed and the read returned its error
\* only after the 200th poll
C35_Witness ==
    /\ variant = "req" /\ pc = "rd_ret" /\ reqState = "error"
    /\ rd.res = "timeout" /\ rd.polls = PollBudget /\ pending = 0

\* the positions of an index buffer that have been written
Written(buf) == {i \in DOMAIN buf : buf[i] # -1}

\* C36: for every count in 0..255 that the device reports, every write of a
\* discovered PDO index by read_pdo_assign_list lands at a position 0..15 of
\* the caller's 16-element buffer, and the count returned is at most 16.
C36_AssignWritesInBuffer ==
    /\ \A c \in 0..255 : ClampCount(c) \in 0..MaxAssign
    /\ Discovers(variant) =>
          /\ cnt \in 0..255
          /\ rx_n \in 0..MaxAssign /\ tx_n \in 0..MaxAssign
          /\ (caller \in {"assign_item"} /\ pc \in {"rd_issue", "rd_poll", "rd_ret"})
                => (ai \in 0..(MaxAssign - 1) /\ ai < cnt /\ cnt <= MaxAssign)
          /\ pc = "assign_loop" => (ai \in 0..cnt /\ cnt <= MaxAssign)
          /\ Written(rx_i) \subseteq 0..(MaxAssign - 1)
          /\ Written(tx_i) \subseteq 0..(MaxAssign - 1)
          /\ pc = "alloc_lists" =>
                (Written(rx_i) = 0..(rx_n - 1) /\ Written(tx_i) = 0..(tx_n - 1))

\* C36 witness: the device reported 40 input PDOs and the read for the last
\* position of tx_i has come back
C36_Witness ==
    /\ variant = "req" /\ dev.txc = BigCount /\ dir = "tx"
    /\ caller = "assign_item" /\ pc = "rd_ret" /\ rd.res = "ok"
    /\ ai = MaxAssign - 1 /\ cnt = MaxAssign

\* C37: when main computes sm3_base, the number of output entries is a
\* position of the offset list: it is below the number of registered
\* entries, at least one of which is an input entry, and the list is not
\* read at or behind its end.
C37_InputBaseInRange ==
    (Discovers(variant) /\ pc = "sm3_base") =>
        /\ Len(offs) = nentries
        /\ TotalEntries(tx) >= 1
        /\ TotalEntries(rx) < Len(offs)

\* the subindices of the entries of one direction
SubindicesOf(p) == {p.entries[i].subindex : i \in 1..Len(p.entries)}

\* C38: within one direction the entries generated for a size of n bytes
\* have pairwise distinct (index, subindex) identities, with the subindex in
\* 1..n: the 8-bit subindex (i+1) mod 256 neither wraps to 0 nor repeats for
\* any size the tools register.
C38_SubindexDistinct ==
    (variant = "entries" /\ pc = "configured") =>
        \A d \in 1..Len(infos) :
            /\ Len(infos[d].entries) = infos[d].n_entries
            /\ \A i \in 1..Len(infos[d].entries) :
                  infos[d].entries[i].index = infos[d].entries[1].index
            /\ SubindicesOf(infos[d]) \subseteq 1..infos[d].n_entries
            /\ Cardinality(SubindicesOf(infos[d])) = infos[d].n_entries

\* the offsets the registration has written, entry by entry
DiagOffsets == [n \in 1..Len(diag.infos) |-> diag.infos[n].byte]

\* the image offsets of a field of w bytes at the logical offset l of the
\* inputs: as the per-byte resolver of v2.0 and v3.0 takes them, and as the
\* contiguous readers of v1.0 and v6.0 take them
PerByteOffsets(l, w) == [b \in 1..w |-> DiagOffsets[diag.sm2 + l + b]]
ContiguousOffsets(l, w) == Contiguous(DiagOffsets[diag.sm2 + l + 1], w)

====
